---- MODULE Spec2Model ----
(***************************************************************************)
(* A model of pybamm/expression_tree/binary_operators.py: the binary       *)
(* operator nodes of the expression tree, their construction (format,      *)
(* domain combination), numeric evaluation with and without the            *)
(* known_evals memo, new_copy, the derivative and Jacobian combinators and *)
(* the printer.                                                            *)
(*                                                                         *)
(* The tree lives in `heap`, a sequence of node records; a node's identity *)
(* (its id) is its index in the heap, children are indices. Nodes are only *)
(* ever appended.                                                          *)
(***************************************************************************)
EXTENDS Integers, Sequences, FiniteSets, TLC

VARIABLES heap, known_evals, last

vars == <<heap, known_evals, last>>

(***************************************************************************)
(* Bounds of the model.                                                    *)
(***************************************************************************)
\* binary operator nodes built in the construction specification
MaxConstructs == 1

\* binary operator nodes of a tree of the evaluation specification
MaxEvalBinary == 3

MaxTreeBinary == 2

MaxTreeHeap == 4

MaxStrBinary == 2

MaxJacBinary == 2

\* nodes calls of inner may add before the last call
MaxInnerNodes == 2

\* entries of an array or a sparse matrix that is divided
MaxEntries == 2

\* nodes calls of source may add before the last call
MaxSourceNodes == 3

\* nodes calls of minimum and maximum may add before the last call
MaxSmoothNodes == 1

(***************************************************************************)
(* Node records.                                                           *)
(***************************************************************************)
BinaryKinds ==
    {"Power", "Addition", "Subtraction", "Multiplication",
     "MatrixMultiplication", "Division", "Inner", "EqualHeaviside",
     "NotEqualHeaviside", "Modulo", "Minimum", "Maximum"}

EmptyDomain == <<>>

NoAux == [has |-> FALSE, sec |-> EmptyDomain]

Secondary(d) == [has |-> TRUE, sec |-> d]

\* A node: kind, children (0 for none), the value of a Scalar (0 otherwise),
\* domain and auxiliary domains.
Leaf(kind, value, domain, aux) ==
    [kind |-> kind, left |-> 0, right |-> 0, value |-> value,
     domain |-> domain, aux |-> aux]

IsBinary(h, n) == h[n].kind \in BinaryKinds

NumBinary(h) == Cardinality({n \in 1..Len(h) : IsBinary(h, n)})

\* Symbol.pre_order: the node and its descendants.
RECURSIVE pre_order(_, _)
pre_order(h, n) ==
    IF h[n].left = 0 THEN {n}
    ELSE {n} \cup pre_order(h, h[n].left)
             \cup (IF h[n].right = 0 THEN {} ELSE pre_order(h, h[n].right))

\* The name each concrete class hands to BinaryOperator.__init__.
name(kind) ==
    CASE kind = "Power" -> "**"
      [] kind = "Addition" -> "+"
      [] kind = "Subtraction" -> "-"
      [] kind = "Multiplication" -> "*"
      [] kind = "MatrixMultiplication" -> "@"
      [] kind = "Division" -> "/"
      [] kind = "Inner" -> "inner product"
      [] kind = "EqualHeaviside" -> "<="
      [] kind = "NotEqualHeaviside" -> "<"
      [] kind = "Modulo" -> "%"
      [] kind = "Minimum" -> "minimum"
      [] kind = "Maximum" -> "maximum"

(***************************************************************************)
(* Numeric values. A value is what numpy hands back for scalar operands:   *)
(* a float64 (t = "f"), held as the fraction n/d in lowest terms with      *)
(* d > 0, or with d = 0 as +inf (n = 1), -inf (n = -1) and nan (n = 0); a  *)
(* numpy bool (t = "b", n in {0, 1}); or a raised exception (t = "raise"). *)
(* Rounding and the sign of zero are not modelled.                         *)
(***************************************************************************)
Abs(x) == IF x < 0 THEN -x ELSE x

Sgn(x) == IF x < 0 THEN -1 ELSE IF x > 0 THEN 1 ELSE 0

RECURSIVE Gcd(_, _)
Gcd(a, b) == IF b = 0 THEN a ELSE Gcd(b, a % b)

F(n, d) ==
    IF d = 0 THEN [n |-> Sgn(n), d |-> 0, t |-> "f"]
    ELSE LET g == Gcd(Abs(n), Abs(d))
         IN  [n |-> Sgn(n) * Sgn(d) * (Abs(n) \div g), d |-> Abs(d) \div g,
              t |-> "f"]

Num(i) == F(i, 1)

NaN == F(0, 0)

PInf == F(1, 0)

Bool(b) == [n |-> IF b THEN 1 ELSE 0, d |-> 1, t |-> "b"]

Raise == [n |-> 0, d |-> 0, t |-> "raise"]

IsNaN(v) == v.d = 0 /\ v.n = 0

IsInf(v) == v.d = 0 /\ v.n # 0

IsZero(v) == v.d # 0 /\ v.n = 0

BothBool(a, b) == a.t = "b" /\ b.t = "b"

Less(a, b) ==
    IF IsNaN(a) \/ IsNaN(b) THEN FALSE
    ELSE IF IsInf(a) /\ IsInf(b) THEN a.n < b.n
    ELSE a.n * b.d < b.n * a.d

LessEq(a, b) == ~IsNaN(a) /\ ~IsNaN(b) /\ ~Less(b, a)

Neg(a) == F(-a.n, a.d)

Add(a, b) ==
    IF IsNaN(a) \/ IsNaN(b) THEN NaN
    ELSE IF IsInf(a) /\ IsInf(b) THEN (IF a.n = b.n THEN F(a.n, 0) ELSE NaN)
    ELSE IF IsInf(a) THEN F(a.n, 0)
    ELSE IF IsInf(b) THEN F(b.n, 0)
    ELSE F(a.n * b.d + b.n * a.d, a.d * b.d)

Mul(a, b) == F(a.n * b.n, a.d * b.d)

\* IEEE a / b.
TrueDiv(a, b) ==
    IF IsZero(b) THEN Mul(a, PInf)
    ELSE Mul(a, F(b.d * Sgn(b.n), Abs(b.n)))

\* a ** k for an exponent k that is a whole number.
Pow(a, k) ==
    IF k = 0 THEN Num(1)
    ELSE IF a.n = 1 /\ a.d = 1 THEN Num(1)
    ELSE IF IsNaN(a) THEN NaN
    ELSE IF k > 0 THEN F(a.n ^ k, a.d ^ k)
    ELSE IF IsZero(a) THEN PInf
    ELSE F((a.d ^ (-k)) * (Sgn(a.n) ^ (-k)), Abs(a.n) ^ (-k))

\* a % b with the sign of the divisor, b finite.
Mod(a, b) ==
    IF IsNaN(a) \/ IsInf(a) \/ IsZero(b) THEN NaN
    ELSE LET q == (a.n * b.d * Sgn(b.n)) \div (a.d * Abs(b.n))
         IN  Add(a, Neg(Mul(b, Num(q))))

Min(a, b) ==
    IF IsNaN(a) \/ IsNaN(b) THEN NaN ELSE IF Less(b, a) THEN F(b.n, b.d) ELSE F(a.n, a.d)

Max(a, b) ==
    IF IsNaN(a) \/ IsNaN(b) THEN NaN ELSE IF Less(a, b) THEN F(b.n, b.d) ELSE F(a.n, a.d)

\* A whole, finite float: the exponents and divisors Pow and Mod are given.
IsWhole(v) == v.t = "f" /\ v.d = 1

(***************************************************************************)
(* _binary_evaluate of each concrete class, on scalar operands.            *)
(***************************************************************************)
Power_binary_evaluate(left, right) ==
    CASE IsWhole(right) -> Pow(left, right.n)

Addition_binary_evaluate(left, right) ==
    IF BothBool(left, right) THEN Bool(left.n = 1 \/ right.n = 1)
    ELSE Add(left, right)

Subtraction_binary_evaluate(left, right) ==
    IF BothBool(left, right) THEN Raise
    ELSE Add(left, Neg(right))

Multiplication_binary_evaluate(left, right) ==
    IF BothBool(left, right) THEN Bool(left.n = 1 /\ right.n = 1)
    ELSE Mul(left, right)

Inner_binary_evaluate(left, right) ==
    IF BothBool(left, right) THEN Bool(left.n = 1 /\ right.n = 1)
    ELSE Mul(left, right)

\* scalars have no dimension to contract: numpy's matmul raises.
MatrixMultiplication_binary_evaluate(left, right) == Raise

Division_binary_evaluate(left, right) ==
    IF right.t = "f" /\ IsZero(right)
    THEN Mul(left, PInf)
    ELSE TrueDiv(left, right)

Modulo_binary_evaluate(left, right) ==
    CASE right.t = "f" /\ right.d # 0 -> Mod(left, right)

Minimum_binary_evaluate(left, right) ==
    IF BothBool(left, right) THEN Bool(left.n = 1 /\ right.n = 1)
    ELSE Min(left, right)

Maximum_binary_evaluate(left, right) ==
    IF BothBool(left, right) THEN Bool(left.n = 1 \/ right.n = 1)
    ELSE Max(left, right)

EqualHeaviside_binary_evaluate(left, right) == Bool(LessEq(left, right))

NotEqualHeaviside_binary_evaluate(left, right) == Bool(Less(left, right))

binary_evaluate(kind, left, right) ==
    CASE kind = "Power" -> Power_binary_evaluate(left, right)
      [] kind = "Addition" -> Addition_binary_evaluate(left, right)
      [] kind = "Subtraction" -> Subtraction_binary_evaluate(left, right)
      [] kind = "Multiplication" -> Multiplication_binary_evaluate(left, right)
      [] kind = "MatrixMultiplication" ->
             MatrixMultiplication_binary_evaluate(left, right)
      [] kind = "Division" -> Division_binary_evaluate(left, right)
      [] kind = "Inner" -> Inner_binary_evaluate(left, right)
      [] kind = "EqualHeaviside" -> EqualHeaviside_binary_evaluate(left, right)
      [] kind = "NotEqualHeaviside" ->
             NotEqualHeaviside_binary_evaluate(left, right)
      [] kind = "Modulo" -> Modulo_binary_evaluate(left, right)
      [] kind = "Minimum" -> Minimum_binary_evaluate(left, right)
      [] kind = "Maximum" -> Maximum_binary_evaluate(left, right)


(***************************************************************************)
(* Construction: BinaryOperator.__init__, format, get_children_domains.    *)
(* An operand is a node of the heap, a plain number, or some other object  *)
(* (neither a number nor a Symbol).                                        *)
(***************************************************************************)
NodeOperand(n) == [t |-> "node", ref |-> n, v |-> 0]

NumberOperand(v) == [t |-> "number", ref |-> 0, v |-> v]

OtherOperand == [t |-> "other", ref |-> 0, v |-> 0]

\* pybamm.Scalar(value): a constant leaf with empty domains.
Scalar(v) == Leaf("Scalar", Num(v), EmptyDomain, NoAux)

\* pybamm.PrimaryBroadcast(child, broadcast_domain): the broadcast node is
\* defined over broadcast_domain and keeps the child's domain as secondary.
PrimaryBroadcast(h, child, broadcast_domain) ==
    [kind |-> "PrimaryBroadcast", left |-> child, right |-> 0,
     value |-> Num(0),
     domain |-> broadcast_domain, aux |-> Secondary(h[child].domain)]

\* "Turn numbers into scalars", one operand: the heap and the operand after.
ToScalarMutant(h, x) == [heap |-> h, x |-> x]

ToScalar(h, x) ==
    IF x.t = "number"
    THEN [heap |-> Append(h, Scalar(x.v)), x |-> NodeOperand(Len(h) + 1)]
    ELSE [heap |-> h, x |-> x]

\* "Do some broadcasting in special cases": the two ifs of format, in order,
\* the second reading the left operand the first may have replaced.
BroadcastLeft(h, l, r) ==
    IF /\ h[l].domain # h[r].domain
       /\ h[r].aux.has
       /\ h[l].domain = h[r].aux.sec
    THEN [heap |-> Append(h, PrimaryBroadcast(h, l, h[r].domain)),
          left |-> Len(h) + 1]
    ELSE [heap |-> h, left |-> l]

BroadcastRight(h, l, r) ==
    IF /\ h[r].domain # h[l].domain
       /\ h[l].aux.has
       /\ h[r].domain = h[l].aux.sec
    THEN [heap |-> Append(h, PrimaryBroadcast(h, r, h[l].domain)),
          right |-> Len(h) + 1]
    ELSE [heap |-> h, right |-> r]

\* The second if of format reading the left operand as it was given.
broadcast_rightMutant(bl, l1, r1) ==
    LET br == BroadcastRight(bl.heap, l1, r1)
    IN  [err |-> "", heap |-> br.heap, left |-> bl.left, right |-> br.right]

\* The second if of format, after the first gave bl.
broadcast_right(bl, l1, r1) ==
    LET br == BroadcastRight(bl.heap, bl.left, r1)
    IN  [err |-> "", heap |-> br.heap, left |-> bl.left, right |-> br.right]

\* format from its type check on, the operands being sl and sr after "Turn
\* numbers into scalars".
check_and_broadcast(h, sl, sr) ==
    IF ~(sl.x.t = "node" /\ sr.x.t = "node")
    THEN [err |-> "NotImplementedError", heap |-> h, left |-> 0, right |-> 0]
    ELSE IF /\ sr.heap[sl.x.ref].domain # EmptyDomain
            /\ sr.heap[sr.x.ref].domain # EmptyDomain
    THEN broadcast_right(BroadcastLeft(sr.heap, sl.x.ref, sr.x.ref),
                         sl.x.ref, sr.x.ref)
    ELSE [err |-> "", heap |-> sr.heap, left |-> sl.x.ref, right |-> sr.x.ref]

\* The right operand is converted on the heap the left one's conversion left.
format_right(h, sl, right) == check_and_broadcast(h, sl, ToScalar(sl.heap, right))

format(h, left, right) == format_right(h, ToScalar(h, left), right)

\* get_children_domains: the combined domain, or the domain error.
get_children_domainsMutant(ldomain, rdomain) ==
    IF ldomain = EmptyDomain
    THEN [err |-> "", domain |-> rdomain]
    ELSE [err |-> "", domain |-> ldomain]

get_children_domains(ldomain, rdomain) ==
    IF ldomain = rdomain THEN [err |-> "", domain |-> ldomain]
    ELSE IF ldomain = EmptyDomain THEN [err |-> "", domain |-> rdomain]
    ELSE IF rdomain = EmptyDomain THEN [err |-> "", domain |-> ldomain]
    ELSE [err |-> "DomainError", domain |-> EmptyDomain]

\* Symbol.get_children_auxiliary_domains: the children's auxiliary domains,
\* level by level, a later child's entry standing for the level.
get_children_auxiliary_domains(h, l, r) ==
    IF h[r].aux.has THEN h[r].aux ELSE h[l].aux

\* __init__ after format gave f: the domains are combined and the node made.
init_formatted(h, kind, f) ==
    IF f.err # ""
    THEN [err |-> f.err, heap |-> h, node |-> 0]
    ELSE LET d == get_children_domains(f.heap[f.left].domain,
                                       f.heap[f.right].domain)
         IN  IF d.err # ""
             THEN [err |-> d.err, heap |-> h, node |-> 0]
             ELSE [err |-> "",
                   heap |-> Append(f.heap,
                       [kind |-> kind, left |-> f.left, right |-> f.right,
                        value |-> Num(0), domain |-> d.domain,
                        aux |-> get_children_auxiliary_domains(
                                    f.heap, f.left, f.right)]),
                   node |-> Len(f.heap) + 1]

\* BinaryOperator.__init__: the heap with the new node last, or the error
\* and the heap as it was.
init(h, kind, left, right) == init_formatted(h, kind, format(h, left, right))

NoMemo == <<>>

\* A client constructs kind(left, right); a memo map the client holds is not
\* touched.
Construct(kind, left, right, cap) ==
    LET c == init(heap, kind, left, right)
    IN  /\ NumBinary(heap) < cap
        /\ heap' = c.heap
        /\ last' = [op |-> "construct", kind |-> kind, left |-> left,
                    right |-> right, err |-> c.err, node |-> c.node,
                    before |-> Len(heap)]
        /\ UNCHANGED known_evals

(***************************************************************************)
(* Evaluation: BinaryOperator.evaluate. A result carries the value and     *)
(* `calls`, the nodes whose _binary_evaluate ran, in order. An exception   *)
(* raised below a node ends the node's evaluation where it stands.         *)
(***************************************************************************)
\* _base_evaluate of a leaf: a Scalar's value, the time t, or an Array's
\* entries, which share one value.
base_evaluate(node, t) ==
    CASE node.kind = "Scalar" -> node.value
      [] node.kind = "Time" -> Num(t)
      [] node.kind = "Array" -> node.value

\* A node's identity, the key of known_evals.
id(n) == n

\* known_evals is None (the else branch).
RECURSIVE evaluate(_, _, _)
evaluate(h, n, t) ==
    IF ~IsBinary(h, n)
    THEN [value |-> base_evaluate(h[n], t), calls |-> <<>>]
    ELSE LET left == evaluate(h, h[n].left, t)
         IN  IF left.value = Raise THEN left
             ELSE LET right == evaluate(h, h[n].right, t)
                      calls == left.calls \o right.calls
                  IN  IF right.value = Raise
                      THEN [value |-> Raise, calls |-> calls]
                      ELSE [value |-> binary_evaluate(h[n].kind, left.value,
                                                      right.value),
                            calls |-> Append(calls, n)]

\* The lookup of known_evals[id]: a hit, or the KeyError of a miss.
HitMutant(known, n) == FALSE

Hit(known, n) == id(n) \in DOMAIN known

\* A lookup under another key than the node's id.
LookupMutant(known, n) == known[CHOOSE k \in DOMAIN known : TRUE]

\* known_evals[id], the entry a hit returns.
Lookup(known, n) == known[id(n)]

\* What evaluate stores under the node's id after a miss.
StoredMutant(value, left, right) == right

Stored(value, left, right) == value

\* known_evals is a map (the if branch): the value, the map after the call
\* and the calls made, `calls` being those made before.
RECURSIVE evaluate_known(_, _, _, _, _)
evaluate_known(h, n, t, known, calls) ==
    IF Hit(known, n)
    THEN [value |-> Lookup(known, n), known_evals |-> known, calls |-> calls]
    ELSE IF ~IsBinary(h, n)
    THEN LET value == base_evaluate(h[n], t)
         IN  [value |-> value, known_evals |-> (id(n) :> value) @@ known,
              calls |-> calls]
    ELSE LET left == evaluate_known(h, h[n].left, t, known, calls)
         IN  IF left.value = Raise THEN left
             ELSE LET right == evaluate_known(h, h[n].right, t,
                                              left.known_evals, left.calls)
                  IN  IF right.value = Raise THEN right
                      ELSE LET value == binary_evaluate(h[n].kind, left.value,
                                                        right.value)
                           IN  IF value = Raise
                               THEN [value |-> Raise,
                                     known_evals |-> right.known_evals,
                                     calls |-> Append(right.calls, n)]
                               ELSE [value |-> value,
                                     known_evals |->
                                         (id(n) :> Stored(value, left.value,
                                                          right.value))
                                         @@ right.known_evals,
                                     calls |-> Append(right.calls, n)]

\* A client evaluates node n at time t without a memo map.
Evaluate(n, t) ==
    LET r == evaluate(heap, n, t)
    IN  /\ last' = [op |-> "evaluate", node |-> n, t |-> t, value |-> r.value,
                    calls |-> r.calls, known |-> NoMemo]
        /\ UNCHANGED <<heap, known_evals>>

\* A client evaluates node n at time t with the memo map `known`, and keeps
\* the map the call hands back.
EvaluateKnown(n, t, known) ==
    LET r == evaluate_known(heap, n, t, known, <<>>)
    IN  /\ last' = [op |-> "evaluate_known", node |-> n, t |-> t,
                    value |-> r.value, calls |-> r.calls, known |-> known]
        /\ known_evals' = r.known_evals
        /\ UNCHANGED heap


(***************************************************************************)
(* Expressions the derivative and Jacobian rules build with the overloaded *)
(* operators of Symbol. A term is a new expression: an operator over       *)
(* terms, a reference to (an orphan copy of) node ref, the Jacobian handed *)
(* in for node ref, a Scalar of value ref, or a raised exception.          *)
(***************************************************************************)
T(op, args) == [op |-> op, args |-> args, ref |-> 0]

Ref(n) == [op |-> "node", args |-> <<>>, ref |-> n]

JacOf(n) == [op |-> "jac", args |-> <<>>, ref |-> n]

ScalarT(v) == [op |-> "Scalar", args |-> <<>>, ref |-> v]

RaiseT == [op |-> "raise", args |-> <<>>, ref |-> 0]

\* a op b and f(a), raising when building an argument raised.
Bin(op, a, b) == IF a = RaiseT \/ b = RaiseT THEN RaiseT ELSE T(op, <<a, b>>)

Un(op, a) == IF a = RaiseT THEN RaiseT ELSE T(op, <<a>>)

\* BinaryOperator.is_constant; a leaf is constant when it is a Scalar or an
\* Array, a unary node when its child is.
RECURSIVE is_constant(_, _)
is_constant(h, n) ==
    IF IsBinary(h, n)
    THEN is_constant(h, h[n].left) /\ is_constant(h, h[n].right)
    ELSE IF h[n].left # 0 THEN is_constant(h, h[n].left)
    ELSE h[n].kind \in {"Scalar", "Array"}

\* Symbol.evaluates_to_number: the node evaluates to a plain number, as
\* Scalars, the time and the operators over them do.
RECURSIVE evaluates_to_number(_, _)
evaluates_to_number(h, n) ==
    IF IsBinary(h, n)
    THEN evaluates_to_number(h, h[n].left) /\ evaluates_to_number(h, h[n].right)
    ELSE h[n].kind \in {"Scalar", "Time"}

\* Symbol.evaluates_to_constant_number.
evaluates_to_constant_number(h, n) ==
    evaluates_to_number(h, n) /\ is_constant(h, n)

(***************************************************************************)
(* _binary_jac of each concrete class, for node n with the Jacobians       *)
(* left_jac and right_jac of its children.                                 *)
(***************************************************************************)
Power_binary_jac(h, n, left_jac, right_jac) ==
    LET left == Ref(h[n].left)
        right == Ref(h[n].right)
        log_left == Un("log", left)
    IN  IF /\ evaluates_to_constant_number(h, h[n].left)
           /\ evaluates_to_constant_number(h, h[n].right)
        THEN ScalarT(0)
        ELSE IF evaluates_to_constant_number(h, h[n].right)
        THEN Bin("*", Bin("*", right,
                          Bin("**", left, Bin("-", right, ScalarT(1)))),
                 left_jac)
        ELSE IF evaluates_to_constant_number(h, h[n].left)
        THEN Bin("*", Bin("*", Bin("**", left, right), log_left), right_jac)
        ELSE Bin("*", Bin("**", left, Bin("-", right, ScalarT(1))),
                 Bin("+", Bin("*", right, left_jac),
                     Bin("*", Bin("*", left, log_left), right_jac)))

Addition_binary_jac(h, n, left_jac, right_jac) == Bin("+", left_jac, right_jac)

Subtraction_binary_jac(h, n, left_jac, right_jac) == Bin("-", left_jac, right_jac)

\* The product rule with the constant operand's Jacobian kept.
Multiplication_binary_jacMutant(h, n, left_jac, right_jac) ==
    LET left == Ref(h[n].left)
        right == Ref(h[n].right)
    IN  IF /\ evaluates_to_constant_number(h, h[n].left)
           /\ evaluates_to_constant_number(h, h[n].right)
        THEN ScalarT(0)
        ELSE Bin("+", Bin("*", right, left_jac), Bin("*", left, right_jac))

Multiplication_binary_jac(h, n, left_jac, right_jac) ==
    LET left == Ref(h[n].left)
        right == Ref(h[n].right)
    IN  IF /\ evaluates_to_constant_number(h, h[n].left)
           /\ evaluates_to_constant_number(h, h[n].right)
        THEN ScalarT(0)
        ELSE IF evaluates_to_constant_number(h, h[n].left)
        THEN Bin("*", left, right_jac)
        ELSE IF evaluates_to_constant_number(h, h[n].right)
        THEN Bin("*", right, left_jac)
        ELSE Bin("+", Bin("*", right, left_jac), Bin("*", left, right_jac))

\* jac of a MatrixMultiplication whatever its left child is.
MatrixMultiplication_binary_jacMutant(h, n, left_jac, right_jac) ==
    Bin("@", Un("Matrix", Ref(h[n].left)), right_jac)

MatrixMultiplication_binary_jac(h, n, left_jac, right_jac) ==
    LET l == h[n].left
    IN  IF \/ h[l].kind = "Array"
           \/ (h[l].kind = "Negate" /\ h[h[l].left].kind = "Array")
        THEN Bin("@", Un("Matrix", Ref(l)), right_jac)
        ELSE RaiseT

Division_binary_jac(h, n, left_jac, right_jac) ==
    LET left == Ref(h[n].left)
        right == Ref(h[n].right)
    IN  IF /\ evaluates_to_constant_number(h, h[n].left)
           /\ evaluates_to_constant_number(h, h[n].right)
        THEN ScalarT(0)
        ELSE IF evaluates_to_constant_number(h, h[n].left)
        THEN Bin("*", Bin("/", Un("-", left), Bin("**", right, ScalarT(2))),
                 right_jac)
        ELSE IF evaluates_to_constant_number(h, h[n].right)
        THEN Bin("/", left_jac, right)
        ELSE Bin("/", Bin("-", Bin("*", right, left_jac),
                          Bin("*", left, right_jac)),
                 Bin("**", right, ScalarT(2)))

Inner_binary_jac(h, n, left_jac, right_jac) ==
    LET left == Ref(h[n].left)
        right == Ref(h[n].right)
    IN  IF /\ evaluates_to_constant_number(h, h[n].left)
           /\ evaluates_to_constant_number(h, h[n].right)
        THEN ScalarT(0)
        ELSE IF evaluates_to_constant_number(h, h[n].left)
        THEN Bin("*", left, right_jac)
        ELSE IF evaluates_to_constant_number(h, h[n].right)
        THEN Bin("*", right, left_jac)
        ELSE Bin("+", Bin("*", right, left_jac), Bin("*", left, right_jac))

Heaviside_binary_jac(h, n, left_jac, right_jac) == ScalarT(0)

Modulo_binary_jac(h, n, left_jac, right_jac) ==
    LET left == Ref(h[n].left)
        right == Ref(h[n].right)
        floor == Un("Floor", Bin("/", left, right))
    IN  IF /\ evaluates_to_constant_number(h, h[n].left)
           /\ evaluates_to_constant_number(h, h[n].right)
        THEN ScalarT(0)
        ELSE IF evaluates_to_constant_number(h, h[n].right)
        THEN left_jac
        ELSE IF evaluates_to_constant_number(h, h[n].left)
        THEN Bin("*", Un("-", right_jac), floor)
        ELSE Bin("-", left_jac, Bin("*", right_jac, floor))

Minimum_binary_jac(h, n, left_jac, right_jac) ==
    LET left == Ref(h[n].left)
        right == Ref(h[n].right)
    IN  Bin("+", Bin("*", Bin("<=", left, right), left_jac),
            Bin("*", Bin(">", left, right), right_jac))

Maximum_binary_jac(h, n, left_jac, right_jac) ==
    LET left == Ref(h[n].left)
        right == Ref(h[n].right)
    IN  Bin("+", Bin("*", Bin(">=", left, right), left_jac),
            Bin("*", Bin("<", left, right), right_jac))

binary_jac(h, n, left_jac, right_jac) ==
    LET kind == h[n].kind
    IN  CASE kind = "Power" -> Power_binary_jac(h, n, left_jac, right_jac)
          [] kind = "Addition" -> Addition_binary_jac(h, n, left_jac, right_jac)
          [] kind = "Subtraction" ->
                 Subtraction_binary_jac(h, n, left_jac, right_jac)
          [] kind = "Multiplication" ->
                 Multiplication_binary_jac(h, n, left_jac, right_jac)
          [] kind = "MatrixMultiplication" ->
                 MatrixMultiplication_binary_jac(h, n, left_jac, right_jac)
          [] kind = "Division" -> Division_binary_jac(h, n, left_jac, right_jac)
          [] kind = "Inner" -> Inner_binary_jac(h, n, left_jac, right_jac)
          [] kind \in {"EqualHeaviside", "NotEqualHeaviside"} ->
                 Heaviside_binary_jac(h, n, left_jac, right_jac)
          [] kind = "Modulo" -> Modulo_binary_jac(h, n, left_jac, right_jac)
          [] kind = "Minimum" -> Minimum_binary_jac(h, n, left_jac, right_jac)
          [] kind = "Maximum" -> Maximum_binary_jac(h, n, left_jac, right_jac)

\* A client combines the Jacobians of node n's children.
BinaryJac(n) ==
    /\ last' = [op |-> "jac", node |-> n,
                out |-> binary_jac(heap, n, JacOf(heap[n].left),
                                   JacOf(heap[n].right))]
    /\ UNCHANGED <<heap, known_evals>>


(***************************************************************************)
(* Differentiation. Symbol.diff hands a node that is the variable the      *)
(* Scalar 1, a node the variable does not occur in the Scalar 0, and any   *)
(* other node to its class's _diff; MatrixMultiplication and Heaviside     *)
(* replace diff itself.                                                    *)
(***************************************************************************)
MatrixMultiplication_diff(h, n, variable) == RaiseT

Heaviside_diff(h, n, variable) == ScalarT(0)

RECURSIVE diff(_, _, _)
diff(h, n, variable) ==
    LET kind == h[n].kind
        left == Ref(h[n].left)
        right == Ref(h[n].right)
        in_right == variable \in pre_order(h, h[n].right)
    IN  IF kind = "MatrixMultiplication"
        THEN MatrixMultiplication_diff(h, n, variable)
        ELSE IF kind \in {"EqualHeaviside", "NotEqualHeaviside"}
        THEN Heaviside_diff(h, n, variable)
        ELSE IF n = variable THEN ScalarT(1)
        ELSE IF variable \notin pre_order(h, n) THEN ScalarT(0)
        ELSE LET dl == diff(h, h[n].left, variable)
             IN  CASE kind = "Power" ->
                      LET d == Bin("*", Bin("*", right,
                                   Bin("**", left, Bin("-", right, ScalarT(1)))),
                                   dl)
                      IN  IF in_right
                          THEN Bin("+", d,
                                   Bin("*", Bin("*", Bin("**", left, right),
                                                Un("log", left)),
                                       diff(h, h[n].right, variable)))
                          ELSE d
                   [] kind = "Addition" ->
                      Bin("+", dl, diff(h, h[n].right, variable))
                   [] kind = "Subtraction" ->
                      Bin("-", dl, diff(h, h[n].right, variable))
                   [] kind \in {"Multiplication", "Inner"} ->
                      Bin("+", Bin("*", dl, right),
                          Bin("*", left, diff(h, h[n].right, variable)))
                   [] kind = "Division" ->
                      Bin("/", Bin("-", Bin("*", dl, right),
                                   Bin("*", left, diff(h, h[n].right, variable))),
                          Bin("**", right, ScalarT(2)))
                   [] kind = "Modulo" ->
                      IF in_right
                      THEN Bin("+", dl,
                               Bin("*", Un("-", Un("Floor", Bin("/", left, right))),
                                   diff(h, h[n].right, variable)))
                      ELSE dl
                   [] kind = "Minimum" ->
                      Bin("+", Bin("*", Bin("<=", left, right), dl),
                          Bin("*", Bin(">", left, right),
                              diff(h, h[n].right, variable)))
                   [] kind = "Maximum" ->
                      Bin("+", Bin("*", Bin(">=", left, right), dl),
                          Bin("*", Bin("<", left, right),
                              diff(h, h[n].right, variable)))
                   [] kind = "Negate" -> Un("-", dl)

\* A client differentiates node n with respect to node variable.
Diff(n, variable) ==
    /\ last' = [op |-> "diff", node |-> n, variable |-> variable,
                out |-> diff(heap, n, variable)]
    /\ UNCHANGED <<heap, known_evals>>

(***************************************************************************)
(* Copying and simplifying. Both build new nodes at the end of the heap.   *)
(***************************************************************************)
\* Symbol.copy_domains: node out takes the domains of node self.
copy_domains(h, out, self) ==
    [h EXCEPT ![out].domain = h[self].domain, ![out].aux = h[self].aux]

\* Symbol.clear_domains: the node's domains are emptied.
clear_domains(h, n) ==
    [h EXCEPT ![n].domain = EmptyDomain, ![n].aux = NoAux]

\* _binary_new_copy: a node of the class of self over left and right.
binary_new_copy(h, self, left, right) ==
    init(h, h[self].kind, NodeOperand(left), NodeOperand(right))

\* The copy keeps the domains it computed from the copied children.
ensure_domainsRecomputed(out, self) == out

\* The domains are copied from the new node to the node copied.
ensure_domainsReversed(out, self) ==
    IF out.err # "" THEN out
    ELSE [out EXCEPT !.heap = copy_domains(out.heap, self, out.node)]

\* "ensure domain(s) remain the same": out.copy_domains(self).
ensure_domains(out, self) ==
    IF out.err # "" THEN out
    ELSE [out EXCEPT !.heap = copy_domains(out.heap, out.node, self)]

\* "make new symbol, ensure domain(s) remain the same" of new_copy.
make_new_symbol(h, self, new_left, new_right) ==
    ensure_domains(binary_new_copy(h, self, new_left, new_right), self)

\* new_copy: the heap with the copy of n's tree appended, and the copy. A
\* leaf is copied as it is.
RECURSIVE new_copy(_, _)
new_copy(h, n) ==
    IF ~IsBinary(h, n)
    THEN [err |-> "", heap |-> Append(h, h[n]), node |-> Len(h) + 1]
    ELSE LET new_left == new_copy(h, h[n].left)
             new_right == new_copy(new_left.heap, h[n].right)
         IN  IF new_left.err # "" THEN new_left
             ELSE IF new_right.err # "" THEN new_right
             ELSE make_new_symbol(new_right.heap, n, new_left.node,
                                  new_right.node)

\* A client copies node n.
NewCopy(n) ==
    LET out == new_copy(heap, n)
    IN  /\ heap' = out.heap
        /\ last' = [op |-> "new_copy", node |-> n, err |-> out.err,
                    out |-> out.node, before |-> Len(heap)]
        /\ UNCHANGED known_evals

\* The leaf that holds the value of the constant node n: a Scalar of a
\* number, an Array over the node's domains of an array.
constant_leaf(h, n, value) ==
    IF evaluates_to_number(h, n)
    THEN Leaf("Scalar", value, EmptyDomain, NoAux)
    ELSE Leaf("Array", value, h[n].domain, h[n].aux)

\* pybamm.simplify_if_constant of the node out holds: a constant node that
\* evaluates without error is replaced by a leaf of its value.
simplify_if_constant(out) ==
    IF out.err # "" THEN out
    ELSE IF is_constant(out.heap, out.node)
            /\ evaluate(out.heap, out.node, 0).value # Raise
    THEN [err |-> "",
          heap |-> Append(out.heap,
                          constant_leaf(out.heap, out.node,
                                        evaluate(out.heap, out.node, 0).value)),
          node |-> Len(out.heap) + 1]
    ELSE out

\* BinaryOperator._binary_simplify, the default the classes without their
\* own simplification inherit.
binary_simplify(h, self, new_left, new_right) ==
    simplify_if_constant(binary_new_copy(h, self, new_left, new_right))

DefaultSimplifyKinds ==
    {"Power", "EqualHeaviside", "NotEqualHeaviside", "Modulo", "Minimum",
     "Maximum"}

\* The simplification pass combines the simplified children new_left and
\* new_right of node n.
BinarySimplify(n, new_left, new_right) ==
    LET out == binary_simplify(heap, n, new_left, new_right)
    IN  /\ heap[n].kind \in DefaultSimplifyKinds
        /\ heap' = out.heap
        /\ last' = [op |-> "simplify", node |-> n, err |-> out.err,
                    out |-> out.node, before |-> Len(heap)]
        /\ UNCHANGED known_evals

\* The simplification pass builds kind(left, right) and clears the domains of
\* the node it built.
BuildCleared(kind, left, right, cap) ==
    LET c == init(heap, kind, NodeOperand(left), NodeOperand(right))
    IN  /\ NumBinary(heap) < cap
        /\ c.err = ""
        /\ heap' = clear_domains(c.heap, c.node)
        /\ last' = [op |-> "construct", kind |-> kind,
                    left |-> NodeOperand(left), right |-> NodeOperand(right),
                    err |-> c.err, node |-> c.node, before |-> Len(heap)]
        /\ UNCHANGED known_evals


(***************************************************************************)
(* Printing: __str__. A printed form is the sequence of the pieces the     *)
(* format strings put together; joined, they are the string.               *)
(***************************************************************************)
\* str of a leaf: its name.
LeafNames == <<"a", "b", "c">>

\* The first condition of BinaryOperator.__str__ without its exception for a
\* + under a -.
brackets_leftMutant(h, n) ==
    /\ IsBinary(h, h[n].left)
    /\ ~ \/ name(h[h[n].left].kind) = name(h[n].kind)
         \/ (name(h[h[n].left].kind) = "*" /\ name(h[n].kind) = "/")
         \/ name(h[n].kind) = "+"

\* "Possibly add brackets for clarity": the conditions of the two ifs.
brackets_left(h, n) ==
    /\ IsBinary(h, h[n].left)
    /\ ~ \/ name(h[h[n].left].kind) = name(h[n].kind)
         \/ (name(h[h[n].left].kind) = "*" /\ name(h[n].kind) = "/")
         \/ (name(h[h[n].left].kind) = "+" /\ name(h[n].kind) = "-")
         \/ name(h[n].kind) = "+"

brackets_right(h, n) ==
    /\ IsBinary(h, h[n].right)
    /\ ~ \/ (name(h[n].kind) = "*" /\ name(h[h[n].right].kind) \in {"*", "/"})
         \/ name(h[n].kind) = "+"

\* "({!s})".format(child)
Bracketed(child_str) == <<"(">> \o child_str \o <<")">>

\* BinaryOperator.__str__ given the printed children.
BinaryOperator_str(h, n, left, right) ==
    (IF brackets_left(h, n) THEN Bracketed(left) ELSE left)
        \o <<" ", name(h[n].kind), " ">>
        \o (IF brackets_right(h, n) THEN Bracketed(right) ELSE right)

\* __str__ of each class: EqualHeaviside, NotEqualHeaviside, Modulo, Minimum
\* and Maximum have their own.
RECURSIVE str(_, _)
str(h, n) ==
    IF ~IsBinary(h, n) THEN <<LeafNames[n]>>
    ELSE CASE h[n].kind = "EqualHeaviside" ->
                  str(h, h[n].left) \o <<" <= ">> \o str(h, h[n].right)
           [] h[n].kind = "NotEqualHeaviside" ->
                  str(h, h[n].left) \o <<" < ">> \o str(h, h[n].right)
           [] h[n].kind = "Modulo" ->
                  str(h, h[n].left) \o <<" mod ">> \o str(h, h[n].right)
           [] h[n].kind = "Minimum" ->
                  <<"minimum(">> \o str(h, h[n].left) \o <<", ">>
                      \o str(h, h[n].right) \o <<")">>
           [] h[n].kind = "Maximum" ->
                  <<"maximum(">> \o str(h, h[n].left) \o <<", ">>
                      \o str(h, h[n].right) \o <<")">>
           [] OTHER ->
                  BinaryOperator_str(h, n, str(h, h[n].left), str(h, h[n].right))

\* A client prints node n.
Str(n) ==
    /\ last' = [op |-> "str", node |-> n, out |-> str(heap, n)]
    /\ UNCHANGED <<heap, known_evals>>


(***************************************************************************)
(* The factory inner. Its collaborators are taken as the specification     *)
(* describes them: preprocess turns numbers into Scalars, is_scalar_zero   *)
(* and is_scalar_one know a Scalar of that value, is_matrix_zero an Array  *)
(* whose entries are zero, and zeros_like gives a new zero node of the     *)
(* shape of the node it is given.                                          *)
(***************************************************************************)
\* pybamm.preprocess, given the left operand after its conversion.
preprocess_right(h, sl, right) ==
    LET sr == ToScalar(sl.heap, right)
    IN  IF sl.x.t = "node" /\ sr.x.t = "node"
        THEN [err |-> "", heap |-> sr.heap, left |-> sl.x.ref, right |-> sr.x.ref]
        ELSE [err |-> "NotImplementedError", heap |-> h, left |-> 0, right |-> 0]

preprocess(h, left, right) == preprocess_right(h, ToScalar(h, left), right)

is_scalar_zero(h, n) == h[n].kind = "Scalar" /\ IsZero(h[n].value)

is_scalar_one(h, n) == h[n].kind = "Scalar" /\ h[n].value = Num(1)

is_matrix_zero(h, n) == h[n].kind = "Array" /\ IsZero(h[n].value)

\* The shape of a node's value: a number, or an array over the node's domains.
shape(h, n) ==
    IF evaluates_to_number(h, n) THEN [number |-> TRUE, domain |-> EmptyDomain,
                                       aux |-> NoAux]
    ELSE [number |-> FALSE, domain |-> h[n].domain, aux |-> h[n].aux]

\* pybamm.zeros_like: the heap with the new zero node last.
zeros_like(h, n) ==
    [err |-> "",
     heap |-> Append(h, Leaf(IF shape(h, n).number THEN "Scalar" ELSE "Array",
                             Num(0), shape(h, n).domain, shape(h, n).aux)),
     node |-> Len(h) + 1]

\* zeros_like of the node `out` holds, when building it did not raise.
zeros_like_out(out) ==
    IF out.err # "" THEN out ELSE zeros_like(out.heap, out.node)

\* inner without its test of the right operand for the scalar zero.
inner_preprocessedMutant(p) ==
    IF p.err # "" THEN [err |-> p.err, heap |-> p.heap, node |-> 0]
    ELSE IF is_scalar_zero(p.heap, p.left) THEN zeros_like(p.heap, p.right)
    ELSE IF is_matrix_zero(p.heap, p.left) \/ is_matrix_zero(p.heap, p.right)
    THEN zeros_like_out(init(p.heap, "Inner", NodeOperand(p.left),
                             NodeOperand(p.right)))
    ELSE IF is_scalar_one(p.heap, p.left)
    THEN [err |-> "", heap |-> p.heap, node |-> p.right]
    ELSE IF is_scalar_one(p.heap, p.right)
    THEN [err |-> "", heap |-> p.heap, node |-> p.left]
    ELSE simplify_if_constant(init(p.heap, "Inner", NodeOperand(p.left),
                                   NodeOperand(p.right)))

\* inner after preprocess gave the operands p.left and p.right.
inner_preprocessed(p) ==
    IF p.err # "" THEN [err |-> p.err, heap |-> p.heap, node |-> 0]
    ELSE IF is_scalar_zero(p.heap, p.left) THEN zeros_like(p.heap, p.right)
    ELSE IF is_scalar_zero(p.heap, p.right) THEN zeros_like(p.heap, p.left)
    ELSE IF is_matrix_zero(p.heap, p.left) \/ is_matrix_zero(p.heap, p.right)
    THEN zeros_like_out(init(p.heap, "Inner", NodeOperand(p.left),
                             NodeOperand(p.right)))
    ELSE IF is_scalar_one(p.heap, p.left)
    THEN [err |-> "", heap |-> p.heap, node |-> p.right]
    ELSE IF is_scalar_one(p.heap, p.right)
    THEN [err |-> "", heap |-> p.heap, node |-> p.left]
    ELSE simplify_if_constant(init(p.heap, "Inner", NodeOperand(p.left),
                                   NodeOperand(p.right)))

inner(h, left, right) == inner_preprocessed(preprocess(h, left, right))

\* A client calls inner(left, right); the record holds the operands after
\* preprocess and the result.
InnerCall(left, right) ==
    /\ heap' = inner(heap, left, right).heap
    /\ last' = [op |-> "inner", left |-> left, right |-> right,
                l |-> preprocess(heap, left, right).left,
                r |-> preprocess(heap, left, right).right,
                err |-> inner(heap, left, right).err,
                node |-> inner(heap, left, right).node,
                before |-> Len(heap)]
    /\ UNCHANGED known_evals


(***************************************************************************)
(* Division._binary_evaluate on every form of operand. The left operand is *)
(* a scalar, a dense array or a scipy sparse matrix, given by its entries; *)
(* an entry a sparse matrix does not store is Unstored. A scalar is a      *)
(* numpy float64 (t = "f") or a number of the language (t = "py"), which   *)
(* raises ZeroDivisionError when it divides by a zero of the language.     *)
(***************************************************************************)
Unstored == [n |-> 0, d |-> 1, t |-> "unstored"]

Py(i) == [n |-> i, d |-> 1, t |-> "py"]

ScalarValue(v) == [form |-> "scalar", entries |-> <<v>>]

DenseArray(entries) == [form |-> "dense", entries |-> entries]

SparseMatrix(entries) == [form |-> "sparse", entries |-> entries]

RaisedValue == [form |-> "raise", entries |-> <<>>]

\* x / y for scalars x and y.
true_divide(x, y) ==
    IF x.t = "py" /\ y.t = "py" /\ IsZero(y) THEN Raise ELSE TrueDiv(x, y)

\* The entries of `operand` each put through f, raising when one raises.
Elementwise(operand, result) ==
    IF \E i \in DOMAIN result : result[i] = Raise THEN RaisedValue
    ELSE [form |-> operand.form, entries |-> result]

\* Division._binary_evaluate without its branch for a right operand of zero.
Division_evaluate_dense_or_scalarMutant(left, right) ==
    Elementwise(left, [i \in DOMAIN left.entries |->
                           true_divide(left.entries[i], right)])

\* The else branch: isinstance(right, numbers.Number) and right == 0 gives
\* left * np.inf, anything else left / right.
Division_evaluate_dense_or_scalar(left, right) ==
    IF right.t \in {"f", "py"} /\ IsZero(right)
    THEN Elementwise(left, [i \in DOMAIN left.entries |->
                                Mul(left.entries[i], PInf)])
    ELSE Elementwise(left, [i \in DOMAIN left.entries |->
                                true_divide(left.entries[i], right)])

\* The issparse branch: csr_matrix(left.multiply(1 / right)) multiplies the
\* stored entries, once 1 / right is there.
Division_evaluate_sparse(left, reciprocal) ==
    IF reciprocal = Raise THEN RaisedValue
    ELSE Elementwise(left, [i \in DOMAIN left.entries |->
                                IF left.entries[i] = Unstored THEN Unstored
                                ELSE Mul(left.entries[i], reciprocal)])

Division_evaluate(left, right) ==
    IF left.form = "sparse"
    THEN Division_evaluate_sparse(left, true_divide(Py(1), right))
    ELSE Division_evaluate_dense_or_scalar(left, right)

\* The operands a call of Division._binary_evaluate is given.
DivideInput(left, right) ==
    /\ heap = <<>>
    /\ known_evals = NoMemo
    /\ last = [op |-> "operands", left |-> left, right |-> right]

\* The call.
Divide ==
    /\ last.op = "operands"
    /\ last' = [op |-> "divide", left |-> last.left, right |-> last.right,
                value |-> Division_evaluate(last.left, last.right)]
    /\ UNCHANGED <<heap, known_evals>>


(***************************************************************************)
(* The factory source. An operand that is not a node has no domain: asking *)
(* for it raises AttributeError.                                           *)
(***************************************************************************)
CurrentCollector == <<"current collector">>

\* pybamm.Mass(child) and pybamm.BoundaryMass(child): the mass matrix of the
\* child's equation, over the child's domains.
MassMatrix(h, kind, child) ==
    [kind |-> kind, left |-> child, right |-> 0, value |-> Num(0),
     domain |-> h[child].domain, aux |-> h[child].aux]

\* source without its broadcast of a number.
broadcast_if_numberMutant(h, left) == [heap |-> h, x |-> left]

\* "Broadcast if left is number": the heap and the left operand after.
broadcast_if_number(h, left) ==
    IF left.t = "number"
    THEN [heap |-> Append(Append(h, Scalar(left.v)),
                          PrimaryBroadcast(Append(h, Scalar(left.v)),
                                           Len(h) + 1, CurrentCollector)),
          x |-> NodeOperand(Len(h) + 2)]
    ELSE [heap |-> h, x |-> left]

\* The mass matrix of right, matrix-multiplied with left.
mass_matmul(h, left, right, boundary) ==
    init(Append(h, MassMatrix(h, IF boundary THEN "BoundaryMass" ELSE "Mass",
                              right)),
         "MatrixMultiplication", NodeOperand(Len(h) + 1), NodeOperand(left))

\* source after the broadcast gave the heap and left operand b: the test of
\* the domains and the product. The domain of both operands is read in every
\* failing call, by the test or by the message of the DomainError, so an
\* operand that is no node raises AttributeError.
source_broadcast(h, b, right, boundary) ==
    IF b.x.t # "node" \/ right.t # "node"
    THEN [err |-> "AttributeError", heap |-> h, node |-> 0]
    ELSE IF \/ b.heap[b.x.ref].domain # CurrentCollector
            \/ b.heap[right.ref].domain # CurrentCollector
    THEN [err |-> "DomainError", heap |-> h, node |-> 0]
    ELSE mass_matmul(b.heap, b.x.ref, right.ref, boundary)

source(h, left, right, boundary) ==
    source_broadcast(h, broadcast_if_number(h, left), right, boundary)

\* A client calls source(left, right, boundary).
SourceCall(left, right, boundary) ==
    /\ heap' = source(heap, left, right, boundary).heap
    /\ last' = [op |-> "source", left |-> left, right |-> right,
                boundary |-> boundary,
                err |-> source(heap, left, right, boundary).err,
                node |-> source(heap, left, right, boundary).node,
                before |-> Len(heap)]
    /\ UNCHANGED known_evals


(***************************************************************************)
(* The factories minimum and maximum. A smoothing setting is "exact" or a  *)
(* coefficient k.                                                          *)
(***************************************************************************)
Exact == [smoothing |-> "exact", k |-> 0]
Smoothing(k) == [smoothing |-> "k", k |-> k]

\* pybamm.is_constant: a number is constant, a node when is_constant() holds.
pybamm_is_constant(h, x) == x.t = "number" \/ is_constant(h, x.ref)

\* pybamm.exp(child), pybamm.log(child) and pybamm.tanh(child): a unary node
\* over the child, with its domains.
Function(h, function, child) ==
    [kind |-> function, left |-> child, right |-> 0, value |-> Num(0),
     domain |-> h[child].domain, aux |-> h[child].aux]

\* The function applied to the node `out` holds, appended to its heap.
apply(function, out) ==
    IF out.err # "" THEN out
    ELSE [err |-> "",
          heap |-> Append(out.heap, Function(out.heap, function, out.node)),
          node |-> Len(out.heap) + 1]

\* c * x: the product of two numbers for a number x, a Multiplication node
\* for a node x.
scaled(h, c, x) ==
    IF x.t = "number"
    THEN [err |-> "", heap |-> Append(h, Scalar(c * x.v)), node |-> Len(h) + 1]
    ELSE init(h, "Multiplication", NumberOperand(c), x)

\* log(el + er) / c
log_sum_over(el, er, c) ==
    IF el.err # "" THEN el
    ELSE IF er.err # "" THEN er
    ELSE IF apply("log", init(er.heap, "Addition", NodeOperand(el.node),
                              NodeOperand(er.node))).err # ""
    THEN apply("log", init(er.heap, "Addition", NodeOperand(el.node),
                           NodeOperand(er.node)))
    ELSE init(apply("log", init(er.heap, "Addition", NodeOperand(el.node),
                                NodeOperand(er.node))).heap,
              "Division",
              NodeOperand(apply("log", init(er.heap, "Addition",
                                            NodeOperand(el.node),
                                            NodeOperand(er.node))).node),
              NumberOperand(c))

\* log(el + exp(c * right)) / c
log_sum_exp_right(el, right, c) ==
    log_sum_over(el, apply("exp", scaled(el.heap, c, right)), c)

\* log(exp(c * left) + exp(c * right)) / c
log_sum_exp(h, left, right, c) ==
    log_sum_exp_right(apply("exp", scaled(h, c, left)), right, c)

softminus(h, left, right, k) == log_sum_exp(h, left, right, -k)

softplus(h, left, right, k) == log_sum_exp(h, left, right, k)

\* The test of minimum and maximum without the setting "exact".
exact_wantedMutant(h, k, left, right) ==
    pybamm_is_constant(h, left) /\ pybamm_is_constant(h, right)

\* The test of minimum and maximum: the exact node is wanted.
exact_wanted(h, k, left, right) ==
    \/ k.smoothing = "exact"
    \/ (pybamm_is_constant(h, left) /\ pybamm_is_constant(h, right))

minimum(h, left, right, k) ==
    simplify_if_constant(IF exact_wanted(h, k, left, right)
                         THEN init(h, "Minimum", left, right)
                         ELSE softminus(h, left, right, k.k))

maximum(h, left, right, k) ==
    simplify_if_constant(IF exact_wanted(h, k, left, right)
                         THEN init(h, "Maximum", left, right)
                         ELSE softplus(h, left, right, k.k))

SmoothRecord(op, before, left, right, k, out) ==
    [op |-> op, left |-> left, right |-> right, k |-> k,
     err |-> out.err, node |-> out.node, before |-> before]

\* A client calls minimum(left, right) while settings.min_smoothing is k.
MinimumCall(left, right, k) ==
    /\ heap' = minimum(heap, left, right, k).heap
    /\ last' = SmoothRecord("minimum", Len(heap), left, right, k,
                            minimum(heap, left, right, k))
    /\ UNCHANGED known_evals

\* A client calls maximum(left, right) while settings.max_smoothing is k.
MaximumCall(left, right, k) ==
    /\ heap' = maximum(heap, left, right, k).heap
    /\ last' = SmoothRecord("maximum", Len(heap), left, right, k,
                            maximum(heap, left, right, k))
    /\ UNCHANGED known_evals


(***************************************************************************)
(* The factory sigmoid: (1 + tanh(k * (right - left))) / 2.                *)
(***************************************************************************)
\* k * (right - left): the product of numbers for two numbers, else the
\* Multiplication of k and the Subtraction node.
sigmoid_argument(h, left, right, k) ==
    IF left.t = "number" /\ right.t = "number"
    THEN [err |-> "", heap |-> Append(h, Scalar(k * (right.v - left.v))),
          node |-> Len(h) + 1]
    ELSE IF init(h, "Subtraction", right, left).err # ""
    THEN init(h, "Subtraction", right, left)
    ELSE init(init(h, "Subtraction", right, left).heap, "Multiplication",
              NumberOperand(k),
              NodeOperand(init(h, "Subtraction", right, left).node))

\* 1 + out
one_plus(out) ==
    IF out.err # "" THEN out
    ELSE init(out.heap, "Addition", NumberOperand(1), NodeOperand(out.node))

\* out / 2
halved(out) ==
    IF out.err # "" THEN out
    ELSE init(out.heap, "Division", NodeOperand(out.node), NumberOperand(2))

sigmoid(h, left, right, k) ==
    halved(one_plus(apply("tanh", sigmoid_argument(h, left, right, k))))

\* A client calls sigmoid(left, right, k).
SigmoidCall(left, right, k) ==
    /\ heap' = sigmoid(heap, left, right, k).heap
    /\ last' = SmoothRecord("sigmoid", Len(heap), left, right, Smoothing(k),
                            sigmoid(heap, left, right, k))
    /\ UNCHANGED known_evals


(***************************************************************************)
(* The construction specification: leaves of several domains, and every    *)
(* kind of operand.                                                        *)
(***************************************************************************)
ConstructLeaves ==
    << Leaf("Variable", Num(0), EmptyDomain, NoAux),
       Leaf("Variable", Num(0), <<"a">>, NoAux),
       Leaf("Variable", Num(0), <<"b">>, Secondary(<<"a">>)),
       Leaf("Variable", Num(0), <<"a">>, Secondary(<<"b">>)),
       Leaf("Variable", Num(0), <<"c">>, NoAux) >>

ConstructKinds == {"Addition", "Division", "EqualHeaviside"}

Operands(h) ==
    {NodeOperand(n) : n \in 1..Len(h)} \cup {NumberOperand(2), OtherOperand}

InitConstruct ==
    /\ heap = ConstructLeaves
    /\ known_evals = NoMemo
    /\ last = [op |-> "init"]

ConstructAny ==
    \E kind \in ConstructKinds, left \in Operands(heap), right \in Operands(heap) :
        Construct(kind, left, right, MaxConstructs)

NextConstruct == ConstructAny

SpecConstruct == InitConstruct /\ [][NextConstruct]_vars

(***************************************************************************)
(* The evaluation specification: trees over a Scalar and the time, built   *)
(* bottom up, every kind over the leaves and DeepKinds above; the newest   *)
(* node is the root a client evaluates.                                    *)
(***************************************************************************)
EvalLeaves ==
    << Leaf("Scalar", Num(2), EmptyDomain, NoAux),
       Leaf("Time", Num(0), EmptyDomain, NoAux) >>

TValues == {0, 3}

DeepKinds == {"Subtraction"}

InitEval ==
    /\ heap = EvalLeaves
    /\ known_evals = NoMemo
    /\ last = [op |-> "init"]

\* The first node is of any kind, over the two leaves.
BuildFirst ==
    /\ NumBinary(heap) = 0
    /\ \E kind \in BinaryKinds, l \in 1..2 :
           Construct(kind, NodeOperand(l), NodeOperand(3 - l), MaxEvalBinary)

\* A later node has the newest node as a child, on either side.
BuildDeep ==
    /\ NumBinary(heap) > 0
    /\ \E kind \in DeepKinds, x \in 1..Len(heap), side \in {"l", "r"} :
           Construct(kind,
                     NodeOperand(IF side = "l" THEN Len(heap) ELSE x),
                     NodeOperand(IF side = "l" THEN x ELSE Len(heap)),
                     MaxEvalBinary)

EvaluateRoot ==
    /\ NumBinary(heap) > 0
    /\ \E t \in TValues : Evaluate(Len(heap), t)

EvaluateRootFresh ==
    /\ NumBinary(heap) > 0
    /\ \E t \in TValues : EvaluateKnown(Len(heap), t, NoMemo)

EvaluateRootReuse ==
    /\ NumBinary(heap) > 0
    /\ known_evals # NoMemo
    /\ \E t \in TValues : EvaluateKnown(Len(heap), t, known_evals)

NextEval ==
    \/ BuildFirst
    \/ BuildDeep
    \/ EvaluateRoot
    \/ EvaluateRootFresh
    \/ EvaluateRootReuse

SpecEval == InitEval /\ [][NextEval]_vars

(***************************************************************************)
(* The tree specification: trees over a Scalar defined on a domain and the *)
(* time, some nodes with their domains cleared by the simplification pass, *)
(* and every operation of a binary node applied to them.                   *)
(***************************************************************************)
TreeLeaves ==
    << Leaf("Scalar", Num(2), <<"a">>, NoAux),
       Leaf("Time", Num(0), EmptyDomain, NoAux) >>

TreeKinds == {"Addition", "Power", "MatrixMultiplication"}

TreeDeepKinds == {"Subtraction"}

InitTree ==
    /\ heap = TreeLeaves
    /\ known_evals = NoMemo
    /\ last = [op |-> "init"]

BinaryNodes(h) == {n \in 1..Len(h) : IsBinary(h, n)}

LeafNodes(h) == {n \in 1..Len(h) : h[n].left = 0}

\* The newest binary node, the root of the tree the operations act on.
Root(h) == CHOOSE n \in BinaryNodes(h) : \A m \in BinaryNodes(h) : m <= n

\* The first node is of one of TreeKinds, over leaves, built by a client or by
\* the simplification pass.
TreeBuildFirst ==
    /\ NumBinary(heap) = 0
    /\ \E kind \in TreeKinds, l \in 1..2, r \in 1..2 :
           Construct(kind, NodeOperand(l), NodeOperand(r), MaxTreeBinary)

TreeBuildCleared ==
    /\ NumBinary(heap) = 0
    /\ \E kind \in TreeKinds, l \in 1..2, r \in 1..2 :
           BuildCleared(kind, l, r, MaxTreeBinary)

\* A later node has the newest node as a child, on either side.
TreeBuildDeep ==
    /\ NumBinary(heap) > 0
    /\ \E kind \in TreeDeepKinds, x \in 1..Len(heap), side \in {"l", "r"} :
           Construct(kind,
                     NodeOperand(IF side = "l" THEN Len(heap) ELSE x),
                     NodeOperand(IF side = "l" THEN x ELSE Len(heap)),
                     MaxTreeBinary)

TreeEvaluate ==
    /\ NumBinary(heap) > 0
    /\ \E t \in TValues : Evaluate(Root(heap), t)

TreeEvaluateKnown ==
    /\ NumBinary(heap) > 0
    /\ \E t \in TValues : EvaluateKnown(Root(heap), t, NoMemo)

TreeDiff ==
    /\ NumBinary(heap) > 0
    /\ \E variable \in 1..2 : Diff(Root(heap), variable)

TreeJac ==
    /\ NumBinary(heap) > 0
    /\ BinaryJac(Root(heap))

TreeNewCopy ==
    /\ Len(heap) <= MaxTreeHeap
    /\ \E n \in BinaryNodes(heap) : NewCopy(n)

TreeSimplify ==
    /\ Len(heap) <= MaxTreeHeap
    /\ \E n \in BinaryNodes(heap), new_left \in 1..2, new_right \in 1..2 :
           BinarySimplify(n, new_left, new_right)

NextTree ==
    \/ TreeBuildFirst
    \/ TreeBuildCleared
    \/ TreeBuildDeep
    \/ TreeEvaluate
    \/ TreeEvaluateKnown
    \/ TreeDiff
    \/ TreeJac
    \/ TreeNewCopy
    \/ TreeSimplify

SpecTree == InitTree /\ [][NextTree]_vars


(***************************************************************************)
(* The printing specification: trees of every kind over three named        *)
(* leaves, the newest node printed.                                        *)
(***************************************************************************)
StrLeaves ==
    << Leaf("Variable", Num(0), EmptyDomain, NoAux),
       Leaf("Variable", Num(0), EmptyDomain, NoAux),
       Leaf("Variable", Num(0), EmptyDomain, NoAux) >>

InitStr ==
    /\ heap = StrLeaves
    /\ known_evals = NoMemo
    /\ last = [op |-> "init"]

\* The first node is over the leaves a and b.
StrBuildFirst ==
    /\ NumBinary(heap) = 0
    /\ \E kind \in BinaryKinds :
           Construct(kind, NodeOperand(1), NodeOperand(2), MaxStrBinary)

\* A later node has the newest node as a child, on either side, and the
\* leaf c or the newest node as the other.
StrBuildDeep ==
    /\ NumBinary(heap) > 0
    /\ \E kind \in BinaryKinds, x \in {3, Len(heap)}, side \in {"l", "r"} :
           Construct(kind,
                     NodeOperand(IF side = "l" THEN Len(heap) ELSE x),
                     NodeOperand(IF side = "l" THEN x ELSE Len(heap)),
                     MaxStrBinary)

StrRoot ==
    /\ NumBinary(heap) > 0
    /\ Str(Len(heap))

NextStr ==
    \/ StrBuildFirst
    \/ StrBuildDeep
    \/ StrRoot

SpecStr == InitStr /\ [][NextStr]_vars

(***************************************************************************)
(* The Jacobian specification: trees over a Scalar, a StateVector, an      *)
(* Array and the negated Array, differentiated and their Jacobians         *)
(* combined.                                                               *)
(***************************************************************************)
JacLeaves ==
    << Leaf("Scalar", Num(2), EmptyDomain, NoAux),
       Leaf("StateVector", Num(0), EmptyDomain, NoAux),
       Leaf("Array", Num(0), EmptyDomain, NoAux),
       [kind |-> "Negate", left |-> 3, right |-> 0, value |-> Num(0),
        domain |-> EmptyDomain, aux |-> NoAux] >>

JacKinds ==
    {"Multiplication", "Division", "Power", "Modulo", "Inner",
     "MatrixMultiplication"}

JacDeepKinds == {"Division", "MatrixMultiplication"}

InitJac ==
    /\ heap = JacLeaves
    /\ known_evals = NoMemo
    /\ last = [op |-> "init"]

JacBuildFirst ==
    /\ NumBinary(heap) = 0
    /\ \E kind \in JacKinds, l \in 1..4, r \in 1..4 :
           Construct(kind, NodeOperand(l), NodeOperand(r), MaxJacBinary)

JacBuildDeep ==
    /\ NumBinary(heap) > 0
    /\ \E kind \in JacDeepKinds, x \in 1..Len(heap), side \in {"l", "r"} :
           Construct(kind,
                     NodeOperand(IF side = "l" THEN Len(heap) ELSE x),
                     NodeOperand(IF side = "l" THEN x ELSE Len(heap)),
                     MaxJacBinary)

JacRoot ==
    /\ NumBinary(heap) > 0
    /\ BinaryJac(Len(heap))

DiffRoot ==
    /\ NumBinary(heap) > 0
    /\ \E variable \in 1..Len(heap) : Diff(Len(heap), variable)

NextJac ==
    \/ JacBuildFirst
    \/ JacBuildDeep
    \/ JacRoot
    \/ DiffRoot

SpecJac == InitJac /\ [][NextJac]_vars


(***************************************************************************)
(* The inner specification: inner called on Scalars 0, 1 and 2, a zero     *)
(* matrix, a Variable and the numbers 0 and 1, and on what the calls gave. *)
(***************************************************************************)
InnerLeaves ==
    << Leaf("Scalar", Num(0), EmptyDomain, NoAux),
       Leaf("Scalar", Num(1), EmptyDomain, NoAux),
       Leaf("Scalar", Num(2), EmptyDomain, NoAux),
       Leaf("Array", Num(0), <<"a">>, NoAux),
       Leaf("Variable", Num(0), <<"a">>, NoAux) >>

InnerOperands(h) ==
    {NodeOperand(n) : n \in 1..Len(h)} \cup {NumberOperand(0), NumberOperand(1)}

InitInner ==
    /\ heap = InnerLeaves
    /\ known_evals = NoMemo
    /\ last = [op |-> "init"]

InnerAny ==
    /\ Len(heap) < Len(InnerLeaves) + MaxInnerNodes
    /\ \E left \in InnerOperands(heap), right \in InnerOperands(heap) :
           InnerCall(left, right)

NextInner == InnerAny

SpecInner == InitInner /\ [][NextInner]_vars


(***************************************************************************)
(* The division specification: Division._binary_evaluate applied to        *)
(* scalars, dense arrays and sparse matrices of MaxEntries entries, over a *)
(* right operand that is zero or two.                                      *)
(***************************************************************************)
DivideEntries == {Num(-1), Num(0), Num(2)}

Seqs(S, len) == [1..len -> S]

DivideLefts ==
    {ScalarValue(v) : v \in DivideEntries \cup {Py(-1), Py(0), Py(2)}}
        \cup {DenseArray(e) : e \in Seqs(DivideEntries, MaxEntries)}
        \cup {SparseMatrix(e) : e \in Seqs(DivideEntries \cup {Unstored}, MaxEntries)}

DivideRights == {Num(0), Py(0), Num(2)}

InitDivide ==
    \E left \in DivideLefts, right \in DivideRights : DivideInput(left, right)

NextDivide == Divide

SpecDivide == InitDivide /\ [][NextDivide]_vars


(***************************************************************************)
(* The source specification: source called on Variables in and out of the  *)
(* current collector, on a number and on an object that is no node, and on *)
(* what the calls gave.                                                    *)
(***************************************************************************)
SourceLeaves ==
    << Leaf("Variable", Num(0), CurrentCollector, NoAux),
       Leaf("Variable", Num(0), CurrentCollector, NoAux),
       Leaf("Variable", Num(0), <<"a">>, NoAux),
       Leaf("Variable", Num(0), EmptyDomain, NoAux) >>

InitSource ==
    /\ heap = SourceLeaves
    /\ known_evals = NoMemo
    /\ last = [op |-> "init"]

SourceAny ==
    /\ Len(heap) < Len(SourceLeaves) + MaxSourceNodes
    /\ \E left \in Operands(heap), right \in Operands(heap),
          boundary \in BOOLEAN :
           SourceCall(left, right, boundary)

NextSource == SourceAny

SpecSource == InitSource /\ [][NextSource]_vars


(***************************************************************************)
(* The smoothing specification: minimum, maximum and sigmoid called on     *)
(* Scalars, Variables, the time and numbers, under either setting.         *)
(***************************************************************************)
SmoothLeaves ==
    << Leaf("Scalar", Num(3), EmptyDomain, NoAux),
       Leaf("Scalar", Num(5), EmptyDomain, NoAux),
       Leaf("Variable", Num(0), <<"a">>, NoAux),
       Leaf("Variable", Num(0), <<"b">>, NoAux),
       Leaf("Time", Num(0), EmptyDomain, NoAux) >>

SmoothOperands(h) ==
    {NodeOperand(n) : n \in 1..Len(h)} \cup {NumberOperand(3), NumberOperand(5)}

SmoothSettings == {Exact, Smoothing(10)}

InitSmooth ==
    /\ heap = SmoothLeaves
    /\ known_evals = NoMemo
    /\ last = [op |-> "init"]

SmoothMinimum ==
    /\ Len(heap) < Len(SmoothLeaves) + MaxSmoothNodes
    /\ \E left \in SmoothOperands(heap), right \in SmoothOperands(heap),
          k \in SmoothSettings :
           MinimumCall(left, right, k)

SmoothMaximum ==
    /\ Len(heap) < Len(SmoothLeaves) + MaxSmoothNodes
    /\ \E left \in SmoothOperands(heap), right \in SmoothOperands(heap),
          k \in SmoothSettings :
           MaximumCall(left, right, k)

SmoothSigmoid ==
    /\ Len(heap) < Len(SmoothLeaves) + MaxSmoothNodes
    /\ \E left \in SmoothOperands(heap), right \in SmoothOperands(heap) :
           SigmoidCall(left, right, 10)

NextSmooth == SmoothMinimum \/ SmoothMaximum \/ SmoothSigmoid

SpecSmooth == InitSmooth /\ [][NextSmooth]_vars


(***************************************************************************)
(* Properties of construction (SpecConstruct).                             *)
(***************************************************************************)
\* The heap as it was before the last construction.
HeapBefore == SubSeq(heap, 1, last.before)

OperandDomain(h, x) == IF x.t = "node" THEN h[x.ref].domain ELSE EmptyDomain

BothConvertible ==
    last.op = "construct" /\ last.left.t # "other" /\ last.right.t # "other"

\* The outcome of the last construction is that of combining l and r.
CombinesAs(l, r) ==
    IF l = r THEN last.err = "" /\ heap[last.node].domain = l
    ELSE IF l = EmptyDomain THEN last.err = "" /\ heap[last.node].domain = r
    ELSE IF r = EmptyDomain THEN last.err = "" /\ heap[last.node].domain = l
    ELSE last.err = "DomainError" /\ last.node = 0 /\ heap = HeapBefore

\* C3 as stated: for the domains l and r of the two operands, the node's
\* domain is l when l = r, r when l is empty, l when r is empty, and otherwise
\* construction fails with the domain error and builds no node.
C3_OperandDomainsCombine ==
    BothConvertible =>
        CombinesAs(OperandDomain(HeapBefore, last.left),
                   OperandDomain(HeapBefore, last.right))

\* C3 amended: the same rule holds of the domains the two operands have
\* after format (after the automatic broadcast of one of them).
C3_FormattedDomainsCombine ==
    BothConvertible =>
        LET f == format(HeapBefore, last.left, last.right)
        IN  CombinesAs(f.heap[f.left].domain, f.heap[f.right].domain)

\* C3 witness: two operands of unequal, non-empty domains that no broadcast
\* reconciles were refused with the domain error.
C3_Witness ==
    /\ BothConvertible
    /\ last.err = "DomainError"
    /\ OperandDomain(heap, last.left) # EmptyDomain
    /\ OperandDomain(heap, last.right) # EmptyDomain

\* The condition of format's broadcast: x's domain is y's secondary domain.
IsSecondaryOf(h, x, y) == h[y].aux.has /\ h[x].domain = h[y].aux.sec

\* Node c is the broadcast of node x over the domain d.
IsBroadcastOf(c, x, d) ==
    /\ heap[c].kind = "PrimaryBroadcast"
    /\ heap[c].left = x
    /\ heap[c].domain = d

BroadcastCase ==
    /\ last.op = "construct"
    /\ last.left.t = "node" /\ last.right.t = "node"
    /\ heap[last.left.ref].domain # EmptyDomain
    /\ heap[last.right.ref].domain # EmptyDomain
    /\ heap[last.left.ref].domain # heap[last.right.ref].domain
    /\ \/ IsSecondaryOf(heap, last.left.ref, last.right.ref)
       \/ IsSecondaryOf(heap, last.right.ref, last.left.ref)

\* C4: when the operands have non-empty, unequal domains and one operand's
\* domain is the other's secondary domain, construction succeeds, exactly one
\* operand is stored wrapped in a broadcast over the other operand's domain
\* (the left one when the condition holds in both directions), the other is
\* stored as given, and the node's domain is the unwrapped operand's.
C4_AutomaticBroadcast ==
    BroadcastCase =>
        LET l == last.left.ref
            r == last.right.ref
        IN  /\ last.err = ""
            /\ IF IsSecondaryOf(heap, l, r)
               THEN /\ IsBroadcastOf(heap[last.node].left, l, heap[r].domain)
                    /\ heap[last.node].right = r
                    /\ heap[last.node].domain = heap[r].domain
               ELSE /\ IsBroadcastOf(heap[last.node].right, r, heap[l].domain)
                    /\ heap[last.node].left = l
                    /\ heap[last.node].domain = heap[l].domain
            /\ Cardinality({c \in last.before + 1 .. Len(heap) :
                               heap[c].kind = "PrimaryBroadcast"}) = 1

\* C4 witness: the condition held in both directions and a node was built.
C4_Witness ==
    /\ BroadcastCase
    /\ IsSecondaryOf(heap, last.left.ref, last.right.ref)
    /\ IsSecondaryOf(heap, last.right.ref, last.left.ref)
    /\ last.err = ""

\* Child c of the new node stands for operand x: the Scalar of a number, or
\* the node given, as it is or under a broadcast.
StandsFor(c, x) ==
    /\ c \in 1..Len(heap)
    /\ IF x.t = "number"
       THEN heap[c].kind = "Scalar" /\ heap[c].value = Num(x.v)
       ELSE c = x.ref \/ (heap[c].kind = "PrimaryBroadcast" /\ heap[c].left = x.ref)

\* C5: a number operand becomes a Scalar leaf; construction fails with the
\* type error, building nothing, exactly when an operand is neither a number
\* nor a node; a node that is built has nodes as left and right, standing for
\* the left and the right operand in that order.
C5_OperandsBecomeNodes ==
    last.op = "construct" =>
        /\ (last.err = "NotImplementedError")
               <=> (last.left.t = "other" \/ last.right.t = "other")
        /\ last.err # "" => (last.node = 0 /\ heap = HeapBefore)
        /\ last.err = "" =>
               /\ last.node = Len(heap)
               /\ heap[last.node].kind = last.kind
               /\ StandsFor(heap[last.node].left, last.left)
               /\ StandsFor(heap[last.node].right, last.right)

\* C5 witness: a number on the left was converted and a node on the right
\* kept, in that order.
C5_Witness ==
    /\ last.op = "construct"
    /\ last.left.t = "number" /\ last.right.t = "node"
    /\ last.err = ""
    /\ heap[heap[last.node].left].kind = "Scalar"
    /\ heap[last.node].right = last.right.ref

(***************************************************************************)
(* Properties of evaluation (SpecEval).                                    *)
(***************************************************************************)
Count(seq, x) == Cardinality({i \in 1..Len(seq) : seq[i] = x})

\* The parents of n among the descendants of root.
Parents(h, root, n) ==
    {p \in pre_order(h, root) : h[p].left = n \/ h[p].right = n}

FreshMemoCall == last.op = "evaluate_known" /\ last.known = NoMemo

\* C1: evaluate called with an empty memo map returns what evaluate called
\* with no memo map returns on the same node and inputs.
C1_MemoChangesNoValue ==
    /\ FreshMemoCall => last.value = evaluate(heap, last.node, last.t).value
    /\ last.op = "evaluate" =>
           last.value = evaluate_known(heap, last.node, last.t, NoMemo, <<>>).value

\* C1 witness: a call with an empty memo map returned a value having read a
\* shared node's value from the map (fewer combinator calls than without).
C1_Witness ==
    /\ FreshMemoCall
    /\ last.value # Raise
    /\ Len(last.calls) < Len(evaluate(heap, last.node, last.t).calls)

\* C2: in a call started with an empty memo map no node's _binary_evaluate
\* runs twice, and when the call returns a value the _binary_evaluate of
\* every binary node below the root (those with two or more parents among
\* them) has run exactly once.
C2_CombinatorRunsOnce ==
    FreshMemoCall =>
        /\ \A n \in 1..Len(heap) : Count(last.calls, n) <= 1
        /\ last.value # Raise =>
               \A n \in pre_order(heap, last.node) :
                   IsBinary(heap, n) => Count(last.calls, n) = 1

\* C2 witness: the call returned and a binary node with two different
\* parents below the root was combined once.
C2_Witness ==
    /\ FreshMemoCall
    /\ last.value # Raise
    /\ \E n \in pre_order(heap, last.node) :
           /\ IsBinary(heap, n)
           /\ Cardinality(Parents(heap, last.node, n)) >= 2
           /\ Count(last.calls, n) = 1

(***************************************************************************)
(* Properties of copying and of the operations' effect on the heap         *)
(* (SpecTree).                                                             *)
(***************************************************************************)
\* The domain __init__ computes for a node over the children of node n.
Recomputed(h, n) == get_children_domains(h[h[n].left].domain, h[h[n].right].domain)

\* C6: the copy new_copy returns is of the same kind as the node copied, has
\* its domain and auxiliary domains, and evaluates to the same value at every
\* time.
C6_CopyPreserves ==
    last.op = "new_copy" =>
        /\ last.err = ""
        /\ last.out > last.before
        /\ heap[last.out].kind = heap[last.node].kind
        /\ heap[last.out].domain = heap[last.node].domain
        /\ heap[last.out].aux = heap[last.node].aux
        /\ \A t \in TValues :
               evaluate(heap, last.out, t).value
                   = evaluate(heap, last.node, t).value

\* A node was copied whose children give another domain than the one it has,
\* and it evaluates to a number.
C6_Witness ==
    /\ last.op = "new_copy"
    /\ last.err = ""
    /\ Recomputed(heap, last.out).domain # heap[last.out].domain
    /\ evaluate(heap, last.out, 3).value.t = "f"

TreeOperations ==
    {"evaluate", "evaluate_known", "diff", "jac", "new_copy", "simplify"}

\* C7: evaluate, diff, _binary_jac, new_copy and _binary_simplify leave every
\* node that exists when they are called as it is: what they build is new.
C7_ExistingNodesKept ==
    [][last'.op \in TreeOperations =>
           /\ Len(heap') >= Len(heap)
           /\ SubSeq(heap', 1, Len(heap)) = heap]_vars

\* A tree with a node under two parents, and with a node whose domains were
\* cleared, was copied.
C7_Witness ==
    /\ last.op = "new_copy"
    /\ last.err = ""
    /\ Len(heap) > last.before
    /\ \E n \in pre_order(heap, last.node) :
           Cardinality(Parents(heap, last.node, n)) = 2
    /\ \E n \in pre_order(heap, last.node) :
           IsBinary(heap, n) /\ Recomputed(heap, n).domain # heap[n].domain

(***************************************************************************)
(* Properties of printing (SpecStr).                                       *)
(***************************************************************************)
\* The printed form of the node last printed begins, or ends, with its left,
\* or right, child in brackets.
LeftBracketed ==
    LET left == str(heap, heap[last.node].left)
    IN  /\ Len(last.out) >= Len(left) + 2
        /\ SubSeq(last.out, 1, Len(left) + 2) = Bracketed(left)

RightBracketed ==
    LET right == str(heap, heap[last.node].right)
    IN  /\ Len(last.out) >= Len(right) + 2
        /\ SubSeq(last.out, Len(last.out) - Len(right) - 1, Len(last.out))
               = Bracketed(right)

\* Standard precedence: powers bind tightest, then products, sums,
\* comparisons; a minimum or maximum is printed as a call.
Precedence(kind) ==
    CASE kind = "Power" -> 4
      [] kind \in {"Multiplication", "Division", "MatrixMultiplication",
                   "Modulo", "Inner"} -> 3
      [] kind \in {"Addition", "Subtraction"} -> 2
      [] kind \in {"EqualHeaviside", "NotEqualHeaviside"} -> 1
      [] kind \in {"Minimum", "Maximum"} -> 5

\* Without brackets the child on `side` of a parent would parse otherwise:
\* it binds looser, or as tight and sits where the parent does not associate.
BracketsNeeded(parent, side, child) ==
    \/ Precedence(child) < Precedence(parent)
    \/ /\ Precedence(child) = Precedence(parent)
       /\ side = (IF parent = "Power" THEN "l" ELSE "r")

PrintsExamples ==
    /\ ( /\ heap[last.node].kind = "Addition"
         /\ heap[last.node].right = 3
         /\ heap[last.node].left = 4
         /\ heap[4].kind = "Multiplication" )
       => last.out = <<"a", " ", "*", " ", "b", " ", "+", " ", "c">>
    /\ ( /\ heap[last.node].kind = "Multiplication"
         /\ heap[last.node].right = 3
         /\ heap[last.node].left = 4
         /\ heap[4].kind = "Addition" )
       => last.out = <<"(", "a", " ", "+", " ", "b", ")", " ", "*", " ", "c">>

\* C8 as stated: a child is in brackets only if precedence and associativity
\* need them, so no pair of brackets is redundant, and the two examples print
\* as `a * b + c` and `(a + b) * c`.
C8_NoRedundantBrackets ==
    last.op = "str" =>
        /\ LeftBracketed =>
               /\ IsBinary(heap, heap[last.node].left)
               /\ BracketsNeeded(heap[last.node].kind, "l",
                                 heap[heap[last.node].left].kind)
        /\ RightBracketed =>
               /\ IsBinary(heap, heap[last.node].right)
               /\ BracketsNeeded(heap[last.node].kind, "r",
                                 heap[heap[last.node].right].kind)
        /\ PrintsExamples

OwnStrKinds ==
    {"EqualHeaviside", "NotEqualHeaviside", "Modulo", "Minimum", "Maximum"}

\* C8: only a child that is a binary operator is put in brackets, and under
\* a Power, Subtraction, Multiplication, MatrixMultiplication, Division or
\* Inner it is, except a left child of the parent's kind, a Multiplication
\* left of a Division, an Addition left of a Subtraction, and a
\* Multiplication or Division right of a Multiplication; an Addition and the
\* classes with their own __str__ bracket no child. The two examples print as
\* `a * b + c` and `(a + b) * c`.
C8_BracketsForClarity ==
    last.op = "str" =>
        LET parent == heap[last.node].kind
            l == heap[last.node].left
            r == heap[last.node].right
        IN  /\ LeftBracketed <=>
                   /\ IsBinary(heap, l)
                   /\ parent \notin OwnStrKinds \cup {"Addition"}
                   /\ heap[l].kind # parent
                   /\ ~(heap[l].kind = "Multiplication" /\ parent = "Division")
                   /\ ~(heap[l].kind = "Addition" /\ parent = "Subtraction")
            /\ RightBracketed <=>
                   /\ IsBinary(heap, r)
                   /\ parent \notin OwnStrKinds \cup {"Addition"}
                   /\ ~ /\ parent = "Multiplication"
                        /\ heap[r].kind \in {"Multiplication", "Division"}
            /\ PrintsExamples

\* A product left of a subtraction was printed in brackets that precedence
\* does not need.
C8_Witness ==
    /\ last.op = "str"
    /\ heap[last.node].kind = "Subtraction"
    /\ last.out = <<"(", "a", " ", "*", " ", "b", ")", " ", "-", " ", "c">>

(***************************************************************************)
(* Properties of the Jacobian and the derivative (SpecJac).                *)
(***************************************************************************)
\* The expressions an expression is built from, itself included.
RECURSIVE Subterms(_)
Subterms(term) ==
    {term} \cup UNION {Subterms(term.args[i]) : i \in DOMAIN term.args}

ShortCircuitKinds == {"Multiplication", "Division", "Power", "Modulo", "Inner"}

\* C9: _binary_jac of a Multiplication, Division, Power, Modulo or Inner is
\* the Scalar 0 when both children evaluate to a constant number; when one
\* does, the result holds the other child's Jacobian and not the constant
\* child's; and for a Division by a constant it is left_jac / right.
C9_ConstantShortCircuit ==
    (last.op = "jac" /\ heap[last.node].kind \in ShortCircuitKinds) =>
        LET l == heap[last.node].left
            r == heap[last.node].right
            lc == evaluates_to_constant_number(heap, l)
            rc == evaluates_to_constant_number(heap, r)
        IN  /\ (lc /\ rc) => last.out = ScalarT(0)
            /\ (lc /\ ~rc) => /\ JacOf(l) \notin Subterms(last.out)
                              /\ JacOf(r) \in Subterms(last.out)
            /\ (~lc /\ rc) => /\ JacOf(r) \notin Subterms(last.out)
                              /\ JacOf(l) \in Subterms(last.out)
            /\ (heap[last.node].kind = "Division" /\ ~lc /\ rc) =>
                   last.out = T("/", <<JacOf(l), Ref(r)>>)

\* The Jacobians of a Division of a state vector by a constant product were
\* combined.
C9_Witness ==
    /\ last.op = "jac"
    /\ heap[last.node].kind = "Division"
    /\ heap[heap[last.node].left].kind = "StateVector"
    /\ IsBinary(heap, heap[last.node].right)
    /\ evaluates_to_constant_number(heap, heap[last.node].right)
    /\ last.out = T("/", <<JacOf(heap[last.node].left),
                           Ref(heap[last.node].right)>>)

\* C10: diff of a MatrixMultiplication raises whatever the variable and the
\* children; its _binary_jac is Matrix(left) @ right_jac when the left child
\* is an Array or the Negate of an Array, and raises otherwise.
C10_MatrixMultiplicationDerivatives ==
    LET l == heap[last.node].left
        r == heap[last.node].right
    IN  /\ (last.op = "diff" /\ heap[last.node].kind = "MatrixMultiplication")
               => last.out = RaiseT
        /\ (last.op = "jac" /\ heap[last.node].kind = "MatrixMultiplication")
               => IF \/ heap[l].kind = "Array"
                     \/ (heap[l].kind = "Negate" /\ heap[heap[l].left].kind = "Array")
                  THEN last.out = T("@", <<T("Matrix", <<Ref(l)>>), JacOf(r)>>)
                  ELSE last.out = RaiseT

\* The Jacobians of a MatrixMultiplication with a negated Array on the left
\* and a binary operator on the right were combined.
C10_Witness ==
    /\ last.op = "jac"
    /\ heap[last.node].kind = "MatrixMultiplication"
    /\ heap[heap[last.node].left].kind = "Negate"
    /\ IsBinary(heap, heap[last.node].right)
    /\ last.out # RaiseT

(***************************************************************************)
(* Properties of inner (SpecInner).                                        *)
(***************************************************************************)
\* The nodes the last call added to the heap.
Added == (last.before + 1)..Len(heap)

\* Node n is a new node filled with zeros, of the shape of node m.
ZerosShapedLike(n, m) ==
    /\ n \in Added
    /\ heap[n].left = 0
    /\ IsZero(heap[n].value)
    /\ shape(heap, n) = shape(heap, m)

\* Node n is an Inner node the last call built over its two operands.
InnerBuilt(n) ==
    /\ n \in Added
    /\ heap[n].kind = "Inner"
    /\ heap[n].left = last.l
    /\ heap[n].right = last.r

ScalarOf(n, v) == heap[n].kind = "Scalar" /\ heap[n].value = v

ZeroMatrix(n) == heap[n].kind = "Array" /\ heap[n].value = Num(0)

\* C11: inner tries its short cuts in order. A zero Scalar on either side
\* gives a new zero node of the shape of the other operand and no Inner node;
\* else a zero matrix on either side gives a new zero node of the shape of
\* Inner(left, right); else a Scalar one on either side gives the other
\* operand itself; else the result is the Inner node, folded to a leaf of its
\* value (a Scalar of a number) when it is constant. inner(0, 1) and
\* inner(1, 0) are zero.
C11_InnerShortCuts ==
    (last.op = "inner" /\ last.err = "") =>
        LET l == last.l
            r == last.r
        IN  /\ IF ScalarOf(l, Num(0)) \/ ScalarOf(r, Num(0))
               THEN /\ ZerosShapedLike(last.node,
                                       IF ScalarOf(l, Num(0)) THEN r ELSE l)
                    /\ \A n \in Added : heap[n].kind # "Inner"
               ELSE IF ZeroMatrix(l) \/ ZeroMatrix(r)
               THEN \E n \in Added :
                        InnerBuilt(n) /\ ZerosShapedLike(last.node, n)
               ELSE IF ScalarOf(l, Num(1)) THEN last.node = r
               ELSE IF ScalarOf(r, Num(1)) THEN last.node = l
               ELSE \E n \in Added :
                        /\ InnerBuilt(n)
                        /\ IF is_constant(heap, n)
                           THEN /\ last.node \in Added
                                /\ heap[last.node].kind
                                       = (IF evaluates_to_number(heap, n)
                                          THEN "Scalar" ELSE "Array")
                                /\ heap[last.node].value
                                       = evaluate(heap, n, 0).value
                           ELSE last.node = n
            /\ ( \/ (last.left = NumberOperand(0) /\ last.right = NumberOperand(1))
                 \/ (last.left = NumberOperand(1) /\ last.right = NumberOperand(0)) )
               => ScalarOf(last.node, Num(0))

\* inner was called with a Variable on the left and the Scalar zero on the
\* right, and gave a zero array over the Variable's domain.
C11_Witness ==
    /\ last.op = "inner"
    /\ last.err = ""
    /\ heap[last.l].kind = "Variable"
    /\ ScalarOf(last.r, Num(0))
    /\ heap[last.node].kind = "Array"
    /\ heap[last.node].domain = <<"a">>

(***************************************************************************)
(* Properties of division by zero (SpecDivide).                            *)
(***************************************************************************)
DividedByZero == last.op = "divide" /\ IsZero(last.right)

\* C12 as stated: with a right operand of zero the call does not fail and
\* every entry of the result is an infinity.
C12_AlwaysSignedInfinity ==
    DividedByZero =>
        /\ last.value # RaisedValue
        /\ \A i \in DOMAIN last.value.entries : IsInf(last.value.entries[i])

\* What an entry x of the left operand becomes: the infinity of its sign, and
\* nan for a zero.
InfinityOfSign(x) ==
    IF x.n > 0 THEN PInf ELSE IF x.n < 0 THEN F(-1, 0) ELSE NaN

\* C12: with a right operand of zero, a scalar or dense left operand never
\* fails and each entry becomes the infinity of its sign, a zero entry nan; a
\* sparse left operand fails with ZeroDivisionError when the zero is a number
\* of the language, and otherwise its stored entries become the infinity of
\* their sign, a stored zero nan, and the entries not stored stay zero.
C12_InfinityOfSignOrNaN ==
    DividedByZero =>
        IF last.left.form = "sparse" /\ last.right.t = "py"
        THEN last.value = RaisedValue
        ELSE /\ last.value.form = last.left.form
             /\ DOMAIN last.value.entries = DOMAIN last.left.entries
             /\ \A i \in DOMAIN last.left.entries :
                    last.value.entries[i] =
                        IF last.left.entries[i] = Unstored THEN Unstored
                        ELSE InfinityOfSign(last.left.entries[i])

\* A scalar zero was divided by zero and gave nan.
C12_Witness ==
    /\ last.op = "divide"
    /\ last.left = ScalarValue(Num(0))
    /\ last.right = Num(0)
    /\ last.value = ScalarValue(NaN)

(***************************************************************************)
(* Properties of source (SpecSource).                                      *)
(***************************************************************************)
InCurrentCollector(x) ==
    x.t = "node" /\ heap[x.ref].domain = CurrentCollector

\* The result of the last call is the mass matrix of the right operand, the
\* boundary one if boundary is set, matrix-multiplied with node `left`.
MassProduct(left) ==
    /\ last.node \in Added
    /\ heap[last.node].kind = "MatrixMultiplication"
    /\ heap[last.node].right = left
    /\ heap[heap[last.node].left].kind
           = (IF last.boundary THEN "BoundaryMass" ELSE "Mass")
    /\ heap[heap[last.node].left].left = last.right.ref

\* C13 as stated: source succeeds only for two operands in the current
\* collector, fails with the domain error for every other pair, numbers
\* included, and gives the mass matrix of right applied to left.
C13_OnlyCurrentCollectorNodes ==
    last.op = "source" =>
        IF InCurrentCollector(last.left) /\ InCurrentCollector(last.right)
        THEN last.err = "" /\ MassProduct(last.left.ref)
        ELSE last.err = "DomainError"

\* Node n is the broadcast of the number v to the current collector.
BroadcastOfNumber(n, v) ==
    /\ n \in Added
    /\ heap[n].kind = "PrimaryBroadcast"
    /\ heap[n].domain = CurrentCollector
    /\ heap[n].left \in Added
    /\ heap[heap[n].left].kind = "Scalar"
    /\ heap[heap[n].left].value = Num(v)

\* C13: a left operand that is a number is first broadcast to the current
\* collector. source then fails with AttributeError when an operand is no
\* node (a right operand that is a number, or an operand that is neither
\* number nor node), whatever the other operand is, and with the domain
\* error when both are nodes and one is outside the current collector;
\* otherwise the result is the boundary mass matrix of right if boundary is
\* set, the mass matrix of right if not, applied to left.
C13_SourceAfterBroadcast ==
    last.op = "source" =>
        IF last.left.t = "other" \/ last.right.t # "node"
        THEN last.err = "AttributeError"
        ELSE IF \/ (last.left.t = "node" /\ ~InCurrentCollector(last.left))
                \/ ~InCurrentCollector(last.right)
        THEN last.err = "DomainError"
        ELSE /\ last.err = ""
             /\ IF last.left.t = "number"
                THEN /\ MassProduct(heap[last.node].right)
                     /\ BroadcastOfNumber(heap[last.node].right, last.left.v)
                ELSE MassProduct(last.left.ref)

\* source was called with a number on the left and a Variable of the current
\* collector on the right, for the boundary, and gave the product.
C13_Witness ==
    /\ last.op = "source"
    /\ last.left.t = "number"
    /\ last.boundary
    /\ last.err = ""
    /\ heap[heap[last.node].left].kind = "BoundaryMass"
    /\ heap[heap[last.node].right].kind = "PrimaryBroadcast"

(***************************************************************************)
(* Properties of minimum and maximum (SpecSmooth).                         *)
(***************************************************************************)
SmoothCalled == last.op \in {"minimum", "maximum"} /\ last.err = ""

\* The operand x is constant; its value, x being a number or a Scalar.
ConstantOperand(x) ==
    x.t = "number" \/ is_constant(SubSeq(heap, 1, last.before), x.ref)

ConstantValue(x) == IF x.t = "number" THEN Num(x.v) ELSE heap[x.ref].value

\* Node n is the operand x, or the Scalar made of the number x.
IsOperand(n, x) ==
    IF x.t = "number"
    THEN n \in Added /\ heap[n].kind = "Scalar" /\ heap[n].value = Num(x.v)
    ELSE n = x.ref

\* Node n is exp(c * x).
ExpScaled(n, c, x) ==
    /\ n \in Added
    /\ heap[n].kind = "exp"
    /\ heap[n].left \in Added
    /\ IF x.t = "number"
       THEN /\ heap[heap[n].left].kind = "Scalar"
            /\ heap[heap[n].left].value = Num(c * x.v)
       ELSE /\ heap[heap[n].left].kind = "Multiplication"
            /\ heap[heap[heap[n].left].left].kind = "Scalar"
            /\ heap[heap[heap[n].left].left].value = Num(c)
            /\ heap[heap[n].left].right = x.ref

\* Node n is log(exp(c * left) + exp(c * right)) / c.
LogSumExp(n, c) ==
    /\ n \in Added
    /\ heap[n].kind = "Division"
    /\ heap[heap[n].right].kind = "Scalar"
    /\ heap[heap[n].right].value = Num(c)
    /\ heap[heap[n].left].kind = "log"
    /\ heap[heap[heap[n].left].left].kind = "Addition"
    /\ ExpScaled(heap[heap[heap[n].left].left].left, c, last.left)
    /\ ExpScaled(heap[heap[heap[n].left].left].right, c, last.right)

\* C14: a call of minimum (maximum) that succeeds gives the exact Minimum
\* (Maximum) node over its operands when the setting is "exact" or both
\* operands are constant, and softminus (softplus) with the coefficient of
\* the setting in every other case; what it built is constant-folded, so for
\* constant operands the result is the Scalar of the smaller (larger) value.
C14_ExactOrSmooth ==
    SmoothCalled =>
        IF ConstantOperand(last.left) /\ ConstantOperand(last.right)
        THEN /\ heap[last.node].kind = "Scalar"
             /\ heap[last.node].value
                    = (IF last.op = "minimum"
                       THEN Min(ConstantValue(last.left),
                                ConstantValue(last.right))
                       ELSE Max(ConstantValue(last.left),
                                ConstantValue(last.right)))
             /\ heap[last.node - 1].kind
                    = (IF last.op = "minimum" THEN "Minimum" ELSE "Maximum")
        ELSE IF last.k.smoothing = "exact"
        THEN /\ last.node \in Added
             /\ heap[last.node].kind
                    = (IF last.op = "minimum" THEN "Minimum" ELSE "Maximum")
             /\ IsOperand(heap[last.node].left, last.left)
             /\ IsOperand(heap[last.node].right, last.right)
        ELSE LogSumExp(last.node,
                       IF last.op = "minimum" THEN -last.k.k ELSE last.k.k)

\* minimum(3, 5) was called under the coefficient 10 and gave the Scalar 3.
C14_Witness ==
    /\ last.op = "minimum"
    /\ last.left = NumberOperand(3)
    /\ last.right = NumberOperand(5)
    /\ last.k = Smoothing(10)
    /\ last.err = ""
    /\ heap[last.node].kind = "Scalar"
    /\ heap[last.node].value = Num(3)

(***************************************************************************)
(* Properties of a hit in the memo map (SpecEval).                         *)
(***************************************************************************)
MemoHit == last.op = "evaluate_known" /\ id(last.node) \in DOMAIN last.known

\* C15: evaluate called with a memo map that holds an entry under the
\* node's id returns that entry and leaves the map as it was, evaluating no
\* child and running no _binary_evaluate, whatever the time t is.
C15_HitReturnsEntry ==
    MemoHit =>
        /\ last.value = last.known[id(last.node)]
        /\ known_evals = last.known
        /\ last.calls = <<>>

\* C15 witness: a map kept from a call at another time was passed again, and
\* the call returned its entry, which is not the node's value at this time.
C15_Witness ==
    /\ MemoHit
    /\ last.value = last.known[id(last.node)]
    /\ last.value # evaluate(heap, last.node, last.t).value

(***************************************************************************)
(* Properties of the printed form read back (SpecStr). A tree is written   *)
(* in prefix form, a kind before its two children, and the printed tokens  *)
(* are parsed under the standard precedence, a power associating to the    *)
(* right and every other operator to the left.                             *)
(***************************************************************************)
RECURSIVE Tree(_, _)
Tree(h, n) ==
    IF ~IsBinary(h, n) THEN <<LeafNames[n]>>
    ELSE <<h[n].kind>> \o Tree(h, h[n].left) \o Tree(h, h[n].right)

\* The kind an infix token stands for, "" for any other token.
OperatorOf(token) ==
    CASE token = "**" -> "Power"
      [] token = "+" -> "Addition"
      [] token = "-" -> "Subtraction"
      [] token = "*" -> "Multiplication"
      [] token = "@" -> "MatrixMultiplication"
      [] token = "/" -> "Division"
      [] token = "inner product" -> "Inner"
      [] token = " <= " -> "EqualHeaviside"
      [] token = " < " -> "NotEqualHeaviside"
      [] token = " mod " -> "Modulo"
      [] OTHER -> ""

NotSpace(token) == token # " "

Opens == {"(", "minimum(", "maximum("}

\* How many brackets are open after token i of s.
Depth(s, i) ==
    Cardinality({j \in 1..i : s[j] \in Opens})
        - Cardinality({j \in 1..i : s[j] = ")"})

\* The positions of the infix operators of s outside every bracket.
TopOperators(s) ==
    {i \in 1..Len(s) : OperatorOf(s[i]) # "" /\ Depth(s, i) = 0}

Loosest(s) ==
    CHOOSE p \in {Precedence(OperatorOf(s[i])) : i \in TopOperators(s)} :
        \A i \in TopOperators(s) : p <= Precedence(OperatorOf(s[i]))

\* The operator s splits at: among the loosest outside brackets the last,
\* or the first when they are powers.
MainOperator(s) ==
    CHOOSE i \in TopOperators(s) :
        /\ Precedence(OperatorOf(s[i])) = Loosest(s)
        /\ \A j \in TopOperators(s) :
               Precedence(OperatorOf(s[j])) = Loosest(s) =>
                   IF OperatorOf(s[i]) = "Power" THEN i <= j ELSE j <= i

\* The comma between the two arguments of the call s.
Comma(s) == CHOOSE i \in 1..Len(s) : s[i] = ", " /\ Depth(s, i) = 1

RECURSIVE Parse(_)
Parse(s) ==
    IF TopOperators(s) # {}
    THEN <<OperatorOf(s[MainOperator(s)])>>
             \o Parse(SubSeq(s, 1, MainOperator(s) - 1))
             \o Parse(SubSeq(s, MainOperator(s) + 1, Len(s)))
    ELSE IF Len(s) = 1 THEN s
    ELSE IF Len(s) >= 3 /\ s[1] = "("
    THEN Parse(SubSeq(s, 2, Len(s) - 1))
    ELSE IF Len(s) >= 5 /\ s[1] \in {"minimum(", "maximum("}
    THEN <<IF s[1] = "minimum(" THEN "Minimum" ELSE "Maximum">>
             \o Parse(SubSeq(s, 2, Comma(s) - 1))
             \o Parse(SubSeq(s, Comma(s) + 1, Len(s) - 1))
    ELSE <<"?">>

\* The printed form of the last call read back.
Reparsed == Parse(SelectSeq(last.out, NotSpace))

\* C16: the printed form of a tree of binary operators, parsed under the
\* standard precedence and associativity, is the tree that was printed.
C16_PrintedFormReparses ==
    last.op = "str" => Reparsed = Tree(heap, last.node)

\* Node n prints its child on `side` without brackets that the parse needs.
BracketOmitted(h, n, side) ==
    LET child == IF side = "l" THEN h[n].left ELSE h[n].right
    IN  /\ IsBinary(h, child)
        /\ h[n].kind \notin {"Minimum", "Maximum"}
        /\ BracketsNeeded(h[n].kind, side, h[child].kind)
        /\ \/ h[n].kind \in OwnStrKinds
           \/ ~(IF side = "l" THEN brackets_left(h, n) ELSE brackets_right(h, n))

\* C16, what holds: the printed form reads back as the tree that was printed
\* exactly when no node of the tree omits brackets that the parse needs.
C16_ReparsesUnlessBracketOmitted ==
    last.op = "str" =>
        ( Reparsed = Tree(heap, last.node)
          <=> \A n \in pre_order(heap, last.node), side \in {"l", "r"} :
                  IsBinary(heap, n) => ~BracketOmitted(heap, n, side) )

\* A power of a power was printed as `a ** b ** c`, which reads back as the
\* power of a to the power of b to c.
C16_Witness ==
    /\ last.op = "str"
    /\ Tree(heap, last.node) = <<"Power", "Power", "a", "b", "c">>
    /\ last.out = <<"a", " ", "**", " ", "b", " ", "**", " ", "c">>
    /\ Reparsed = <<"Power", "a", "Power", "b", "c">>

====
